---------------------------- MODULE Spec2Model ----------------------------
(***************************************************************************)
(* A model of the HLS playlist parser of packages/hls-parser: the          *)
(* character scanner, the tag dispatcher with its tag processors, the      *)
(* segment / variant assembler and the two parser facades                  *)
(* (FullPlaylistParser, ProgressiveParser).                                *)
(*                                                                         *)
(* A string is a sequence of one-character strings, so that the scanner    *)
(* reads it one character at a time as the code does.  A JavaScript value  *)
(* that may be undefined, null or NaN is a record with a "kind" field.     *)
(***************************************************************************)
EXTENDS Integers, Sequences, FiniteSets, TLC

\* ------------------------------------------------------------------------
\* JavaScript values
\* ------------------------------------------------------------------------

Undefined == [kind |-> "undefined"]

Null == [kind |-> "null"]

NaN == [kind |-> "NaN"]

Str(s) == [kind |-> "string", v |-> s]

Num(n) == [kind |-> "number", v |-> n]

\* JavaScript truthiness of a value (as in `x ? a : b` and `if (x)`).
Truthy(x) ==
    CASE x.kind = "string" -> x.v # <<>>
      [] x.kind = "number" -> x.v # 0
      [] x.kind \in {"undefined", "null", "NaN"} -> FALSE
      [] OTHER -> TRUE

IsDigit(c) == c \in {"0", "1", "2", "3", "4", "5", "6", "7", "8", "9"}

DigitValue(c) ==
    CASE c = "0" -> 0 [] c = "1" -> 1 [] c = "2" -> 2 [] c = "3" -> 3
      [] c = "4" -> 4 [] c = "5" -> 5 [] c = "6" -> 6 [] c = "7" -> 7
      [] c = "8" -> 8 [] c = "9" -> 9

RECURSIVE DigitsValue(_, _)
DigitsValue(s, acc) ==
    IF s = <<>> THEN acc ELSE DigitsValue(Tail(s), 10 * acc + DigitValue(Head(s)))

RECURSIVE DigitPrefix(_)
DigitPrefix(s) ==
    IF s = <<>> \/ ~IsDigit(Head(s)) THEN <<>> ELSE <<Head(s)>> \o DigitPrefix(Tail(s))

\* Number(x) on undefined or on a string of the input alphabet: the empty
\* string is 0, a run of decimal digits is its value, anything else is NaN.
JsNumber(x) ==
    CASE x.kind = "number" -> x
      [] x.kind = "string" ->
            IF x.v = <<>> THEN Num(0)
            ELSE IF \A i \in 1..Len(x.v) : IsDigit(x.v[i]) THEN Num(DigitsValue(x.v, 0))
            ELSE NaN
      [] x.kind = "null" -> Num(0)
      [] OTHER -> NaN

\* parseFloat(s): the value of the longest leading run of digits, NaN if none.
JsParseFloat(s) ==
    IF DigitPrefix(s) = <<>> THEN NaN ELSE Num(DigitsValue(DigitPrefix(s), 0))

\* ------------------------------------------------------------------------
\* Strings
\* ------------------------------------------------------------------------

NL == "\n"

IsWhitespace(c) == c \in {" ", "\t", "\r"}

RECURSIVE TrimLeft(_)
TrimLeft(s) == IF s # <<>> /\ IsWhitespace(Head(s)) THEN TrimLeft(Tail(s)) ELSE s

RECURSIVE TrimRight(_)
TrimRight(s) ==
    IF s # <<>> /\ IsWhitespace(s[Len(s)]) THEN TrimRight(SubSeq(s, 1, Len(s) - 1)) ELSE s

\* A trim that returns the string as it is.
noTrim(s) == s

Trim(s) == TrimRight(TrimLeft(s))

\* Index of the first occurrence of character c in s at or after position i, 0 if none.
RECURSIVE IndexOf(_, _, _)
IndexOf(s, c, i) ==
    IF i > Len(s) THEN 0 ELSE IF s[i] = c THEN i ELSE IndexOf(s, c, i + 1)

\* s.split(c) for a one-character separator.
RECURSIVE Split(_, _)
Split(s, c) ==
    LET k == IndexOf(s, c, 1)
    IN  IF k = 0 THEN <<s>> ELSE <<SubSeq(s, 1, k - 1)>> \o Split(SubSeq(s, k + 1, Len(s)), c)

RECURSIVE Flatten(_)
Flatten(ss) == IF ss = <<>> THEN <<>> ELSE Head(ss) \o Flatten(Tail(ss))

\* ------------------------------------------------------------------------
\* Tag names (consts/tags)
\* ------------------------------------------------------------------------

EXTM3U == <<"E","X","T","M","3","U">>
EXT_X_INDEPENDENT_SEGMENTS == <<"E","X","T","-","X","-","I","N","D","E","P","E","N","D","E","N","T","-","S","E","G","M","E","N","T","S">>
EXT_X_ENDLIST == <<"E","X","T","-","X","-","E","N","D","L","I","S","T">>
EXT_X_I_FRAMES_ONLY == <<"E","X","T","-","X","-","I","-","F","R","A","M","E","S","-","O","N","L","Y">>
EXT_X_DISCONTINUITY == <<"E","X","T","-","X","-","D","I","S","C","O","N","T","I","N","U","I","T","Y">>
EXT_X_GAP == <<"E","X","T","-","X","-","G","A","P">>
EXT_X_VERSION == <<"E","X","T","-","X","-","V","E","R","S","I","O","N">>
EXT_X_TARGETDURATION == <<"E","X","T","-","X","-","T","A","R","G","E","T","D","U","R","A","T","I","O","N">>
EXT_X_MEDIA_SEQUENCE == <<"E","X","T","-","X","-","M","E","D","I","A","-","S","E","Q","U","E","N","C","E">>
EXT_X_DISCONTINUITY_SEQUENCE == <<"E","X","T","-","X","-","D","I","S","C","O","N","T","I","N","U","I","T","Y","-","S","E","Q","U","E","N","C","E">>
EXT_X_PLAYLIST_TYPE == <<"E","X","T","-","X","-","P","L","A","Y","L","I","S","T","-","T","Y","P","E">>
EXTINF == <<"E","X","T","I","N","F">>
EXT_X_BYTERANGE == <<"E","X","T","-","X","-","B","Y","T","E","R","A","N","G","E">>
EXT_X_BITRATE == <<"E","X","T","-","X","-","B","I","T","R","A","T","E">>
EXT_X_PROGRAM_DATE_TIME == <<"E","X","T","-","X","-","P","R","O","G","R","A","M","-","D","A","T","E","-","T","I","M","E">>
EXT_X_START == <<"E","X","T","-","X","-","S","T","A","R","T">>
EXT_X_PART_INF == <<"E","X","T","-","X","-","P","A","R","T","-","I","N","F">>
EXT_X_SERVER_CONTROL == <<"E","X","T","-","X","-","S","E","R","V","E","R","-","C","O","N","T","R","O","L">>
EXT_X_KEY == <<"E","X","T","-","X","-","K","E","Y">>
EXT_X_MAP == <<"E","X","T","-","X","-","M","A","P">>
EXT_X_PART == <<"E","X","T","-","X","-","P","A","R","T">>
EXT_X_MEDIA == <<"E","X","T","-","X","-","M","E","D","I","A">>
EXT_X_STREAM_INF == <<"E","X","T","-","X","-","S","T","R","E","A","M","-","I","N","F">>
EXT_X_SKIP == <<"E","X","T","-","X","-","S","K","I","P">>
EXT_X_I_FRAME_STREAM_INF == <<"E","X","T","-","X","-","I","-","F","R","A","M","E","-","S","T","R","E","A","M","-","I","N","F">>
EXT_X_DATERANGE == <<"E","X","T","-","X","-","D","A","T","E","R","A","N","G","E">>
EXT_X_PRELOAD_HINT == <<"E","X","T","-","X","-","P","R","E","L","O","A","D","-","H","I","N","T">>
EXT_X_RENDITION_REPORT == <<"E","X","T","-","X","-","R","E","N","D","I","T","I","O","N","-","R","E","P","O","R","T">>
EXT_X_SESSION_DATA == <<"E","X","T","-","X","-","S","E","S","S","I","O","N","-","D","A","T","A">>
EXT_X_SESSION_KEY == <<"E","X","T","-","X","-","S","E","S","S","I","O","N","-","K","E","Y">>
EXT_X_CONTENT_STEERING == <<"E","X","T","-","X","-","C","O","N","T","E","N","T","-","S","T","E","E","R","I","N","G">>
EXT_X_DEFINE == <<"E","X","T","-","X","-","D","E","F","I","N","E">>

\* The keys of the three processor registries built by the constructor.
emptyTagMap ==
    {EXTM3U, EXT_X_INDEPENDENT_SEGMENTS, EXT_X_ENDLIST, EXT_X_I_FRAMES_ONLY,
     EXT_X_DISCONTINUITY, EXT_X_GAP}

tagValueMap ==
    {EXT_X_VERSION, EXT_X_TARGETDURATION, EXT_X_MEDIA_SEQUENCE,
     EXT_X_DISCONTINUITY_SEQUENCE, EXT_X_PLAYLIST_TYPE, EXTINF, EXT_X_BYTERANGE,
     EXT_X_BITRATE, EXT_X_PROGRAM_DATE_TIME}

tagAttributesMap ==
    {EXT_X_START, EXT_X_PART_INF, EXT_X_SERVER_CONTROL, EXT_X_KEY, EXT_X_MAP,
     EXT_X_PART, EXT_X_MEDIA, EXT_X_STREAM_INF, EXT_X_SKIP, EXT_X_I_FRAME_STREAM_INF,
     EXT_X_DATERANGE, EXT_X_PRELOAD_HINT, EXT_X_RENDITION_REPORT, EXT_X_SESSION_DATA,
     EXT_X_SESSION_KEY, EXT_X_CONTENT_STEERING, EXT_X_DEFINE}

\* ------------------------------------------------------------------------
\* Attribute maps: Record<string, string> as a sequence of key/value pairs in
\* insertion order (the order `for ... in` visits them).
\* ------------------------------------------------------------------------

HasAttr(attrs, k) == \E i \in 1..Len(attrs) : attrs[i].k = k

\* tagAttributes[k]: the string stored under k, or undefined.
Attr(attrs, k) ==
    IF HasAttr(attrs, k)
    THEN Str(attrs[CHOOSE i \in 1..Len(attrs) : attrs[i].k = k].v)
    ELSE Undefined

\* tagAttributes[k] = v
SetAttr(attrs, k, v) ==
    IF HasAttr(attrs, k)
    THEN [i \in 1..Len(attrs) |-> IF attrs[i].k = k THEN [k |-> k, v |-> v] ELSE attrs[i]]
    ELSE Append(attrs, [k |-> k, v |-> v])

\* ------------------------------------------------------------------------
\* Attribute lexer
\* ------------------------------------------------------------------------

QUOTE == "\""

unquote(v) ==
    IF Len(v) >= 2 /\ v[1] = QUOTE /\ v[Len(v)] = QUOTE THEN SubSeq(v, 2, Len(v) - 1) ELSE v

commitPair(lx) ==
    [lx EXCEPT !.attrs = SetAttr(lx.attrs, lx.keyBuf, unquote(lx.valBuf)),
               !.keyBuf = <<>>, !.valBuf = <<>>, !.mode = "key"]

\* A lexer that ends an attribute at every comma, quoted or not.
lexCharCommaAlways(lx, c) ==
    LET put == IF lx.mode = "key"
               THEN [lx EXCEPT !.keyBuf = Append(@, c)]
               ELSE [lx EXCEPT !.valBuf = Append(@, c)]
    IN  CASE c = QUOTE -> [put EXCEPT !.quoted = ~lx.quoted]
          [] c = "=" /\ ~lx.quoted /\ lx.mode = "key" ->
                [lx EXCEPT !.mode = "value", !.sawEquals = TRUE]
          [] c = "," /\ lx.mode = "value" -> commitPair(lx)
          [] OTHER -> put

lexChar(lx, c) ==
    LET put == IF lx.mode = "key"
               THEN [lx EXCEPT !.keyBuf = Append(@, c)]
               ELSE [lx EXCEPT !.valBuf = Append(@, c)]
    IN  CASE c = QUOTE -> [put EXCEPT !.quoted = ~lx.quoted]
          [] c = "=" /\ ~lx.quoted /\ lx.mode = "key" ->
                [lx EXCEPT !.mode = "value", !.sawEquals = TRUE]
          [] c = "," /\ ~lx.quoted /\ lx.mode = "value" -> commitPair(lx)
          [] c = "," /\ ~lx.quoted /\ lx.mode = "key" /\ ~lx.sawEquals ->
                [put EXCEPT !.bare = TRUE]
          [] OTHER -> put

\* The characters of the body are lexed in order, the first half before the
\* second.  The walk ends with the body, or as soon as the body is known to be
\* a bare value: nothing lexed after that point is kept.
RECURSIVE lexWalk(_, _)
lexWalk(lx, s) ==
    CASE s = <<>> \/ lx.bare -> lx
      [] Len(s) = 1 -> lexChar(lx, s[1])
      [] OTHER ->
            lexWalk(lexWalk(lx, SubSeq(s, 1, Len(s) \div 2)),
                    SubSeq(s, Len(s) \div 2 + 1, Len(s)))

\* The tag body split into an attribute map, or kept whole as a bare value when
\* no unquoted `=` comes before the first unquoted comma or the end of the body.
parseAttributeList(body) ==
    LET start == [quoted |-> FALSE, mode |-> "key", keyBuf |-> <<>>, valBuf |-> <<>>,
                  attrs |-> <<>>, sawEquals |-> FALSE, bare |-> FALSE]
        walked == lexWalk(start, body)
        isBare == walked.bare \/ ~walked.sawEquals
        final == IF walked.mode = "value" \/ walked.keyBuf # <<>>
                 THEN commitPair(walked) ELSE walked
    IN  IF isBare THEN [tagValue |-> Str(body), tagAttributes |-> <<>>]
        ELSE [tagValue |-> Null, tagAttributes |-> final.attrs]

\* ------------------------------------------------------------------------
\* Defaults (consts/defaults)
\* ------------------------------------------------------------------------

createDefaultSegment ==
    [uri |-> <<>>, resolvedUri |-> <<>>, duration |-> 0, title |-> <<>>,
     byteRange |-> Undefined, bitrate |-> Undefined,
     isDiscontinuity |-> FALSE, isGap |-> FALSE,
     encryption |-> Undefined, map |-> Undefined, parts |-> <<>>,
     programDateTimeStart |-> Undefined, programDateTimeEnd |-> Undefined,
     mediaSequence |-> 0, discontinuitySequence |-> 0, startTime |-> 0, endTime |-> 0]

createDefaultVariantStream ==
    [uri |-> <<>>, resolvedUri |-> <<>>, bandwidth |-> Num(0),
     averageBandwidth |-> Undefined, score |-> Undefined, codecs |-> <<>>,
     supplementalCodecs |-> <<>>, resolution |-> Undefined, hdcpLevel |-> Undefined,
     allowedCpc |-> <<>>, videoRange |-> Undefined, stableVariantId |-> Undefined,
     video |-> Undefined, pathwayId |-> Undefined, frameRate |-> Undefined,
     audio |-> Undefined, subtitles |-> Undefined, closedCaptions |-> Undefined]

createDefaultDefine == [name |-> <<>>, import |-> <<>>, queryParam |-> <<>>]

createDefaultParsedPlaylist ==
    [m3u |-> FALSE, version |-> Undefined, independentSegments |-> FALSE,
     endList |-> FALSE, iFramesOnly |-> FALSE, playlistType |-> Undefined,
     targetDuration |-> Undefined, mediaSequence |-> 0, discontinuitySequence |-> 0,
     skip |-> Undefined, define |-> createDefaultDefine,
     segments |-> <<>>, variantStreams |-> <<>>, iFramePlaylists |-> <<>>,
     renditionGroups |-> [audio |-> <<>>, video |-> <<>>, subtitles |-> <<>>,
                          closedCaptions |-> <<>>],
     custom |-> <<>>]

createDefaultSharedState ==
    [currentSegment |-> createDefaultSegment,
     currentVariant |-> createDefaultVariantStream,
     currentEncryption |-> Undefined, currentMap |-> Undefined,
     currentBitrate |-> Undefined,
     baseUrl |-> <<>>, baseTime |-> 0, baseDefine |-> Undefined,
     hasVariablesForSubstitution |-> FALSE, isMultivariantPlaylist |-> FALSE]

\* ------------------------------------------------------------------------
\* The state a call works on: the parser's playlist and shared state, the
\* warnings passed to warnCallback during the call, and whether an exception
\* has left a callback.
\* ------------------------------------------------------------------------

Warn(p, w) == [p EXCEPT !.warned = Append(@, w)]

\* A call of one of the caller's functions (debugCallback, transformTagValue,
\* transformTagAttributes, a customTagMap entry) with its arguments.
Call(p, fn, tagKey, tagValue, tagAttributes) ==
    [p EXCEPT !.called = Append(@, [fn |-> fn, tagKey |-> tagKey, tagValue |-> tagValue,
                                    tagAttributes |-> tagAttributes])]

Throw(p) == [p EXCEPT !.thrown = TRUE]

\* utils/warn
ignoreTagWarn(tag) == [type |-> "ignoreTag", tag |-> tag, arg |-> <<>>]

missingTagValueWarn(tag) == [type |-> "missingTagValue", tag |-> tag, arg |-> <<>>]

unsupportedTagWarn(tag) == [type |-> "unsupportedTag", tag |-> tag, arg |-> <<>>]

\* The warning of EXT-X-PART for a BYTERANGE without offset that has no
\* previous partial segment with a byte range to go on from.
partByteRangeWithoutPreviousWarn(tag) ==
    [type |-> "byteRangeWithoutPrevious", tag |-> tag, arg |-> <<>>]

unableToParseValueWarn(tag) == [type |-> "unableToParseValue", tag |-> tag, arg |-> <<>>]

unsupportedEnumValue(tag, actual) == [type |-> "unsupportedEnumValue", tag |-> tag, arg |-> actual]

missingRequiredAttributeWarn(tag, attribute) ==
    [type |-> "missingRequiredAttribute", tag |-> tag, arg |-> attribute]

missingRequiredVariableForAttributeValueSubstitutionWarn(tag, attribute, variableName) ==
    [type |-> "missingVariableForAttribute", tag |-> tag, arg |-> variableName]

missingRequiredVariableForUriSubstitutionWarn(uri, variableName) ==
    [type |-> "missingVariableForUri", tag |-> uri, arg |-> variableName]

failedToResolveUriAttribute(tag, attribute, uriValue, baseUrl) ==
    [type |-> "failedToResolveUriAttribute", tag |-> tag, arg |-> attribute]

failedToResolveUri(uriValue, baseUrl) ==
    [type |-> "failedToResolveUri", tag |-> uriValue, arg |-> baseUrl]

segmentDurationExceededTargetDuration(segmentUri, segmentDuration, targetDuration) ==
    [type |-> "segmentDurationExceededTargetDuration", tag |-> segmentUri, arg |-> <<>>]

\* ------------------------------------------------------------------------
\* Variable substitution and URI resolution (utils/parse)
\* ------------------------------------------------------------------------

IsVariableNameChar(c) ==
    \/ IsDigit(c)
    \/ c \in {"_", "-"}
    \/ c \in {"a", "b", "c", "d", "e", "f", "g", "h", "i", "j", "k", "l", "m", "n",
              "o", "p", "q", "r", "s", "t", "u", "v", "w", "x", "y", "z"}
    \/ c \in {"A", "B", "C", "D", "E", "F", "G", "H", "I", "J", "K", "L", "M", "N",
              "O", "P", "Q", "R", "S", "T", "U", "V", "W", "X", "Y", "Z"}

\* The value stored under key k in one of the define mappings, or undefined.
Lookup(map, k) ==
    IF \E i \in 1..Len(map) : map[i].k = k
    THEN map[CHOOSE i \in 1..Len(map) : map[i].k = k].v
    ELSE Undefined

\* map[k] = v
Store(map, k, v) ==
    IF \E i \in 1..Len(map) : map[i].k = k
    THEN [i \in 1..Len(map) |-> IF map[i].k = k THEN [k |-> k, v |-> v] ELSE map[i]]
    ELSE Append(map, [k |-> k, v |-> v])

\* The value of variable `name`: define.name, then define.import, then
\* define.queryParam; undefined when none holds a string for it.
variableValue(define, name) ==
    CASE Lookup(define.name, name).kind = "string" -> Lookup(define.name, name)
      [] Lookup(define.import, name).kind = "string" -> Lookup(define.import, name)
      [] Lookup(define.queryParam, name).kind = "string" -> Lookup(define.queryParam, name)
      [] OTHER -> Undefined

\* Length of the variable reference {$NAME} that starts at s[1], 0 if none does.
referenceLength(s) ==
    IF Len(s) >= 4 /\ s[1] = "{" /\ s[2] = "$"
    THEN LET close == IndexOf(s, "}", 3)
         IN  IF close > 3 /\ \A i \in 3..(close - 1) : IsVariableNameChar(s[i])
             THEN close ELSE 0
    ELSE 0

\* The text with every {$NAME} of a defined variable replaced by its value;
\* an undefined one stays as it is and is reported, once per occurrence.
RECURSIVE substituteVariables(_, _)
substituteVariables(s, define) ==
    IF s = <<>> THEN [text |-> <<>>, missing |-> <<>>]
    ELSE LET n == referenceLength(s)
         IN  IF n = 0
             THEN LET rest == substituteVariables(Tail(s), define)
                  IN  [text |-> <<Head(s)>> \o rest.text, missing |-> rest.missing]
             ELSE LET name == SubSeq(s, 3, n - 1)
                      value == variableValue(define, name)
                      rest == substituteVariables(SubSeq(s, n + 1, Len(s)), define)
                  IN  IF value.kind = "string"
                      THEN [text |-> value.v \o rest.text, missing |-> rest.missing]
                      ELSE [text |-> SubSeq(s, 1, n) \o rest.text,
                            missing |-> <<name>> \o rest.missing]

\* A URI with a scheme needs no base.
IsAbsoluteUri(uri) == IndexOf(uri, ":", 1) > 1

\* resolveUri(uri, baseUrl): null when there is no usable base.
resolveUri(uri, baseUrl) ==
    CASE baseUrl = <<>> -> Null
      [] ~IsAbsoluteUri(baseUrl) -> Null
      [] IsAbsoluteUri(uri) -> Str(uri)
      [] OTHER ->
            LET q == IndexOf(baseUrl, "?", 1)
                path == IF q = 0 THEN baseUrl ELSE SubSeq(baseUrl, 1, q - 1)
                slash == CHOOSE i \in 0..Len(path) :
                            /\ i = 0 \/ path[i] = "/"
                            /\ \A j \in (i + 1)..Len(path) : path[j] # "/"
            IN  Str(SubSeq(path, 1, slash) \o uri)

\* parseBoolean(value, defaultValue) of utils/parse
parseBoolean(value, defaultValue) ==
    CASE value = Str(<<"Y","E","S">>) -> TRUE
      [] value = Str(<<"N","O">>) -> FALSE
      [] OTHER -> defaultValue

\* a + b and a - b on JavaScript numbers: NaN as soon as an operand is no number.
JsAdd(a, b) == IF a.kind = "number" /\ b.kind = "number" THEN Num(a.v + b.v) ELSE NaN

JsSub(a, b) == IF a.kind = "number" /\ b.kind = "number" THEN Num(a.v - b.v) ELSE NaN

\* array[i] of a JavaScript array of strings (1-based here): undefined past its end.
At(arr, i) == IF i <= Len(arr) THEN Str(arr[i]) ELSE Undefined

\* ------------------------------------------------------------------------
\* Tags without a value (tags/emptyTagProcessors)
\* ------------------------------------------------------------------------

\* A processor of an empty tag that notes the tag in playlist.custom.
emptyTagNotedInCustom(tag, p) == [p EXCEPT !.playlist.custom = Store(@, tag, Null)]

EmptyTagProcess(tag, p) ==
    CASE tag = EXTM3U -> [p EXCEPT !.playlist.m3u = TRUE]
      [] tag = EXT_X_INDEPENDENT_SEGMENTS -> [p EXCEPT !.playlist.independentSegments = TRUE]
      [] tag = EXT_X_ENDLIST -> [p EXCEPT !.playlist.endList = TRUE]
      [] tag = EXT_X_I_FRAMES_ONLY -> [p EXCEPT !.playlist.iFramesOnly = TRUE]
      [] tag = EXT_X_DISCONTINUITY ->
            [p EXCEPT !.sharedState.currentSegment.isDiscontinuity = TRUE]
      [] tag = EXT_X_GAP -> [p EXCEPT !.sharedState.currentSegment.isGap = TRUE]

\* ------------------------------------------------------------------------
\* Tags with a value (tags/tagWithValueProcessors)
\* ------------------------------------------------------------------------

\* EXTINF:<duration>[,<title>]
ExtInfProcess(tagValue, p) ==
    LET comma == IndexOf(tagValue, ",", 1)
        first == IF comma = 0 THEN tagValue ELSE SubSeq(tagValue, 1, comma - 1)
        title == IF comma = 0 THEN <<>> ELSE SubSeq(tagValue, comma + 1, Len(tagValue))
        duration == JsParseFloat(first)
    IN  IF duration.kind # "number" THEN Warn(p, unableToParseValueWarn(EXTINF))
        ELSE [p EXCEPT !.sharedState.currentSegment.duration = duration.v,
                       !.sharedState.currentSegment.title = title]

\* The tags whose value is one integer, stored in the playlist field of the tag.
NumberValueProcess(tag, tagValue, p) ==
    LET n == JsNumber(Str(tagValue))
    IN  IF n.kind # "number" THEN Warn(p, unableToParseValueWarn(tag))
        ELSE CASE tag = EXT_X_VERSION -> [p EXCEPT !.playlist.version = n]
               [] tag = EXT_X_TARGETDURATION -> [p EXCEPT !.playlist.targetDuration = n]
               [] tag = EXT_X_MEDIA_SEQUENCE -> [p EXCEPT !.playlist.mediaSequence = n.v]
               [] tag = EXT_X_DISCONTINUITY_SEQUENCE ->
                     [p EXCEPT !.playlist.discontinuitySequence = n.v]
               [] tag = EXT_X_BITRATE -> [p EXCEPT !.sharedState.currentBitrate = n]

\* EXT-X-BYTERANGE:<length>[@<offset>]: without offset the range goes on from
\* the end of the previous segment's byte range.
ExtXByteRangeProcess(tagValue, p) ==
    LET values == Split(tagValue, "@")
        length == JsNumber(At(values, 1))
        segments == p.playlist.segments
        previousEnd == IF segments # <<>>
                       THEN IF segments[Len(segments)].byteRange = Undefined THEN Undefined
                            ELSE segments[Len(segments)].byteRange.end
                       ELSE Undefined
        start == IF Len(values) >= 2 THEN JsNumber(At(values, 2))
                 ELSE JsAdd(previousEnd, Num(1))
    IN  [p EXCEPT !.sharedState.currentSegment.byteRange =
            [kind |-> "byteRange", start |-> start,
             end |-> JsSub(JsAdd(start, length), Num(1))]]

\* Date.parse on the date-times of the input alphabet: a second of the first
\* minute of 1970, UTC, in milliseconds; NaN for any other string.
DateParse(s) ==
    IF /\ Len(s) = 20
       /\ SubSeq(s, 1, 17) = <<"1","9","7","0","-","0","1","-","0","1","T","0","0",":","0","0",":">>
       /\ IsDigit(s[18]) /\ IsDigit(s[19])
       /\ s[20] = "Z"
    THEN Num(1000 * DigitsValue(SubSeq(s, 18, 19), 0))
    ELSE NaN

\* EXT-X-PROGRAM-DATE-TIME:<date-time>
ExtXProgramDateTimeProcess(tagValue, p) ==
    LET timestamp == DateParse(tagValue)
    IN  IF timestamp.kind # "number"
        THEN Warn(p, unableToParseValueWarn(EXT_X_PROGRAM_DATE_TIME))
        ELSE [p EXCEPT !.sharedState.currentSegment.programDateTimeStart = timestamp]

ExtXPlaylistTypeProcess(tagValue, p) ==
    IF tagValue \in {<<"V","O","D">>, <<"E","V","E","N","T">>}
    THEN [p EXCEPT !.playlist.playlistType = Str(tagValue)]
    ELSE Warn(p, unsupportedEnumValue(EXT_X_PLAYLIST_TYPE, tagValue))

TagWithValueProcess(tag, tagValue, p) ==
    CASE tag = EXTINF -> ExtInfProcess(tagValue, p)
      [] tag = EXT_X_PLAYLIST_TYPE -> ExtXPlaylistTypeProcess(tagValue, p)
      [] tag \in {EXT_X_VERSION, EXT_X_TARGETDURATION, EXT_X_MEDIA_SEQUENCE,
                  EXT_X_DISCONTINUITY_SEQUENCE, EXT_X_BITRATE} ->
            NumberValueProcess(tag, tagValue, p)
      [] tag = EXT_X_BYTERANGE -> ExtXByteRangeProcess(tagValue, p)
      [] tag = EXT_X_PROGRAM_DATE_TIME -> ExtXProgramDateTimeProcess(tagValue, p)
      [] OTHER -> p

\* ------------------------------------------------------------------------
\* Tags with attributes (tags/tagWithAttributesProcessors)
\* ------------------------------------------------------------------------

requiredAttributes(tag) ==
    CASE tag = EXT_X_START -> <<<<"T","I","M","E","-","O","F","F","S","E","T">>>>
      [] tag = EXT_X_PART_INF -> <<<<"P","A","R","T","-","T","A","R","G","E","T">>>>
      [] tag = EXT_X_SERVER_CONTROL -> <<>>
      [] tag = EXT_X_KEY -> <<<<"M","E","T","H","O","D">>>>
      [] tag = EXT_X_SESSION_KEY -> <<<<"M","E","T","H","O","D">>>>
      [] tag = EXT_X_MAP -> <<<<"U","R","I">>>>
      [] tag = EXT_X_PART -> <<<<"U","R","I">>, <<"D","U","R","A","T","I","O","N">>>>
      [] tag = EXT_X_SKIP -> <<<<"S","K","I","P","P","E","D","-","S","E","G","M","E","N","T","S">>>>
      [] tag = EXT_X_MEDIA -> <<<<"T","Y","P","E">>, <<"G","R","O","U","P","-","I","D">>, <<"N","A","M","E">>>>
      [] tag = EXT_X_STREAM_INF -> <<<<"B","A","N","D","W","I","D","T","H">>>>
      [] tag = EXT_X_I_FRAME_STREAM_INF -> <<<<"B","A","N","D","W","I","D","T","H">>, <<"U","R","I">>>>
      [] tag = EXT_X_DATERANGE -> <<<<"I","D">>, <<"S","T","A","R","T","-","D","A","T","E">>>>
      [] tag = EXT_X_PRELOAD_HINT -> <<<<"T","Y","P","E">>, <<"U","R","I">>>>
      [] tag = EXT_X_RENDITION_REPORT -> <<<<"U","R","I">>>>
      [] tag = EXT_X_SESSION_DATA -> <<<<"D","A","T","A","-","I","D">>>>
      [] tag = EXT_X_CONTENT_STEERING -> <<<<"S","E","R","V","E","R","-","U","R","I">>>>
      [] tag = EXT_X_DEFINE -> <<>>

\* The warnings of checkRequiredAttributes: one per required attribute that is absent.
RECURSIVE missingAttributeWarnings(_, _, _)
missingAttributeWarnings(tag, required, tagAttributes) ==
    IF required = <<>> THEN <<>>
    ELSE (IF HasAttr(tagAttributes, Head(required)) THEN <<>>
          ELSE <<missingRequiredAttributeWarn(tag, Head(required))>>)
         \o missingAttributeWarnings(tag, Tail(required), tagAttributes)

checkRequiredAttributes(tag, tagAttributes) ==
    missingAttributeWarnings(tag, requiredAttributes(tag), tagAttributes)

\* runVariableSubstitution: every attribute value substituted, in key order;
\* nothing is touched while sharedState.hasVariablesForSubstitution is false.
RECURSIVE substituteAttributes(_, _, _, _)
substituteAttributes(tag, tagAttributes, i, p) ==
    IF i > Len(tagAttributes) THEN [tagAttributes |-> tagAttributes, p |-> p]
    ELSE LET r == substituteVariables(tagAttributes[i].v, p.playlist.define)
             warns == [j \in 1..Len(r.missing) |->
                         missingRequiredVariableForAttributeValueSubstitutionWarn(
                             tag, tagAttributes[i].k, r.missing[j])]
         IN  substituteAttributes(
                 tag,
                 [tagAttributes EXCEPT ![i].v = r.text],
                 i + 1,
                 [p EXCEPT !.warned = @ \o warns])

\* A substitution pass that does not look at hasVariablesForSubstitution.
substituteWithoutFlag(tag, tagAttributes, p) == substituteAttributes(tag, tagAttributes, 1, p)

runVariableSubstitution(tag, tagAttributes, p) ==
    IF ~p.sharedState.hasVariablesForSubstitution
    THEN [tagAttributes |-> tagAttributes, p |-> p]
    ELSE substituteAttributes(tag, tagAttributes, 1, p)

\* resolveUriAttribute: the resolved URI, or the URI itself with a warning.
resolveUriAttributeValue(uri, baseUrl) ==
    IF resolveUri(uri, baseUrl).kind = "null" THEN Str(uri) ELSE resolveUri(uri, baseUrl)

resolveUriAttributeWarn(tag, uri, baseUrl, attributeKey, p) ==
    IF resolveUri(uri, baseUrl).kind = "null"
    THEN Warn(p, failedToResolveUriAttribute(tag, attributeKey, uri, baseUrl))
    ELSE p

\* EXT-X-SKIP.  The condition of the conditional expression is the constant
\* 'RECENTLY-REMOVED-DATERANGES', a non-empty string, so the attribute is always
\* read and split: on an absent attribute `undefined.split` throws a TypeError.
ExtXSkipSafeProcess(tagAttributes, p) ==
    LET removed == Attr(tagAttributes, <<"R","E","C","E","N","T","L","Y","-","R","E","M","O","V","E","D","-","D","A","T","E","R","A","N","G","E","S">>)
    IN  IF Truthy(Str(<<"R","E","C","E","N","T","L","Y","-","R","E","M","O","V","E","D","-","D","A","T","E","R","A","N","G","E","S">>))
        THEN IF removed.kind = "undefined" THEN Throw(p)
             ELSE [p EXCEPT !.playlist.skip =
                      [skippedSegments |-> JsNumber(Attr(tagAttributes, <<"S","K","I","P","P","E","D","-","S","E","G","M","E","N","T","S">>)),
                       recentlyRemovedDateRanges |-> Split(removed.v, "\t")]]
        ELSE [p EXCEPT !.playlist.skip =
                 [skippedSegments |-> JsNumber(Attr(tagAttributes, <<"S","K","I","P","P","E","D","-","S","E","G","M","E","N","T","S">>)),
                  recentlyRemovedDateRanges |-> <<>>]]

\* ExtXMedia.typeToKeyMap[type]: undefined for a TYPE outside the four known ones.
typeToKeyMap(type) ==
    CASE type = Str(<<"A","U","D","I","O">>) -> "audio"
      [] type = Str(<<"V","I","D","E","O">>) -> "video"
      [] type = Str(<<"S","U","B","T","I","T","L","E","S">>) -> "subtitles"
      [] type = Str(<<"C","L","O","S","E","D","-","C","A","P","T","I","O","N","S">>) -> "closedCaptions"
      [] OTHER -> "undefined"

\* EXT-X-MEDIA.  For an unknown TYPE, playlist.renditionGroups[undefined] is
\* undefined and reading [groupId] of it throws a TypeError.
ExtXMediaSafeProcess(tagAttributes, p) ==
    LET uri == Attr(tagAttributes, <<"U","R","I">>)
        baseUrl == p.sharedState.baseUrl
        p1 == IF Truthy(uri) THEN resolveUriAttributeWarn(EXT_X_MEDIA, uri.v, baseUrl, <<"U","R","I">>, p)
              ELSE p
        rendition ==
            [uri |-> uri,
             resolvedUri |-> IF Truthy(uri) THEN resolveUriAttributeValue(uri.v, baseUrl)
                             ELSE Undefined,
             type |-> Attr(tagAttributes, <<"T","Y","P","E">>),
             groupId |-> Attr(tagAttributes, <<"G","R","O","U","P","-","I","D">>),
             name |-> Attr(tagAttributes, <<"N","A","M","E">>),
             language |-> Attr(tagAttributes, <<"L","A","N","G","U","A","G","E">>),
             assocLanguage |-> Attr(tagAttributes, <<"A","S","S","O","C","-","L","A","N","G","U","A","G","E">>),
             default |-> parseBoolean(Attr(tagAttributes, <<"D","E","F","A","U","L","T">>), FALSE),
             autoSelect |-> parseBoolean(Attr(tagAttributes, <<"A","U","T","O","S","E","L","E","C","T">>), FALSE),
             forced |-> parseBoolean(Attr(tagAttributes, <<"F","O","R","C","E","D">>), FALSE),
             inStreamId |-> Attr(tagAttributes, <<"I","N","S","T","R","E","A","M","-","I","D">>),
             characteristics |-> IF Truthy(Attr(tagAttributes, <<"C","H","A","R","A","C","T","E","R","I","S","T","I","C","S">>))
                                 THEN Split(Attr(tagAttributes, <<"C","H","A","R","A","C","T","E","R","I","S","T","I","C","S">>).v, ",")
                                 ELSE <<>>,
             channels |-> IF Truthy(Attr(tagAttributes, <<"C","H","A","N","N","E","L","S">>))
                          THEN Split(Attr(tagAttributes, <<"C","H","A","N","N","E","L","S">>).v, "/")
                          ELSE <<>>,
             stableRenditionId |-> Attr(tagAttributes, <<"S","T","A","B","L","E","-","R","E","N","D","I","T","I","O","N","-","I","D">>)]
        renditionTypeKey == typeToKeyMap(rendition.type)
        groups == p1.playlist.renditionGroups[renditionTypeKey]
        matchingGroup == Lookup(groups, rendition.groupId.v)
    IN  IF renditionTypeKey = "undefined" THEN Throw(p1)
        ELSE IF matchingGroup.kind # "undefined"
        THEN [p1 EXCEPT !.playlist.renditionGroups[renditionTypeKey] =
                 Store(groups, rendition.groupId.v,
                       [kind |-> "array", v |-> Append(matchingGroup.v, rendition)])]
        ELSE [p1 EXCEPT !.playlist.renditionGroups[renditionTypeKey] =
                 Store(groups, rendition.groupId.v, [kind |-> "array", v |-> <<rendition>>])]

\* BaseStreamInfProcessor.parseResolution
parseResolution(value) ==
    LET parsedResolution ==
            IF Truthy(value)
            THEN [i \in 1..Len(Split(value.v, "x")) |-> JsNumber(Str(Split(value.v, "x")[i]))]
            ELSE <<>>
    IN  IF Len(parsedResolution) = 2
        THEN [kind |-> "resolution", width |-> parsedResolution[1], height |-> parsedResolution[2]]
        ELSE Undefined

\* BaseStreamInfProcessor.parseAllowedCpc
RECURSIVE cpcEntries(_, _)
cpcEntries(entries, cpcRecord) ==
    IF entries = <<>> THEN cpcRecord
    ELSE LET parsedEntry == Split(Head(entries), ":")
             keyFormat == parsedEntry[1]
         IN  cpcEntries(Tail(entries),
                        IF keyFormat # <<>>
                        THEN Store(cpcRecord, keyFormat,
                                   IF Truthy(At(parsedEntry, 2)) THEN Split(parsedEntry[2], "/")
                                   ELSE <<>>)
                        ELSE cpcRecord)

parseAllowedCpc(value) ==
    cpcEntries(IF Truthy(value) THEN Split(value.v, ",") ELSE <<>>, <<>>)

\* value.split(',').map((codec) => codec.trim()), or [] for a falsy value
splitAndTrim(value) ==
    IF Truthy(value)
    THEN [i \in 1..Len(Split(value.v, ",")) |-> Trim(Split(value.v, ",")[i])]
    ELSE <<>>

NumberIfTruthy(value) == IF Truthy(value) THEN JsNumber(value) ELSE Undefined

\* BaseStreamInfProcessor.parseCommonAttributes
parseCommonAttributes(tagAttributes) ==
    [uri |-> <<>>,
     resolvedUri |-> <<>>,
     bandwidth |-> JsNumber(Attr(tagAttributes, <<"B","A","N","D","W","I","D","T","H">>)),
     averageBandwidth |-> NumberIfTruthy(Attr(tagAttributes, <<"A","V","E","R","A","G","E","-","B","A","N","D","W","I","D","T","H">>)),
     score |-> NumberIfTruthy(Attr(tagAttributes, <<"S","C","O","R","E">>)),
     codecs |-> splitAndTrim(Attr(tagAttributes, <<"C","O","D","E","C","S">>)),
     supplementalCodecs |-> splitAndTrim(Attr(tagAttributes, <<"S","U","P","P","L","E","M","E","N","T","A","L","-","C","O","D","E","C","S">>)),
     resolution |-> parseResolution(Attr(tagAttributes, <<"R","E","S","O","L","U","T","I","O","N">>)),
     hdcpLevel |-> Attr(tagAttributes, <<"H","D","C","P","-","L","E","V","E","L">>),
     allowedCpc |-> parseAllowedCpc(Attr(tagAttributes, <<"A","L","L","O","W","E","D","-","C","P","C">>)),
     videoRange |-> Attr(tagAttributes, <<"V","I","D","E","O","-","R","A","N","G","E">>),
     stableVariantId |-> Attr(tagAttributes, <<"S","T","A","B","L","E","-","V","A","R","I","A","N","T","-","I","D">>),
     video |-> Attr(tagAttributes, <<"V","I","D","E","O">>),
     pathwayId |-> Attr(tagAttributes, <<"P","A","T","H","W","A","Y","-","I","D">>)]

\* Object.assign(target, source): the fields of source overwrite those of target.
ObjectAssign(target, source) ==
    [f \in DOMAIN target \cup DOMAIN source |->
        IF f \in DOMAIN source THEN source[f] ELSE target[f]]

\* An EXT-X-STREAM-INF that fills the current variant and leaves
\* isMultivariantPlaylist as it is.
streamInfWithoutMultivariant(tagAttributes, p) ==
    [p EXCEPT !.sharedState.currentVariant =
        ObjectAssign(@, parseCommonAttributes(tagAttributes))]

\* An EXT-X-STREAM-INF that appends its variant stream at once and leaves the
\* URI to the line that follows.
streamInfAppendingVariant(tagAttributes, p) ==
    [p EXCEPT !.playlist.variantStreams =
                  Append(@, ObjectAssign(createDefaultVariantStream,
                                         parseCommonAttributes(tagAttributes))),
              !.sharedState.isMultivariantPlaylist = TRUE]

\* EXT-X-STREAM-INF
ExtXStreamInfSafeProcess(tagAttributes, p) ==
    LET variantStream ==
            ObjectAssign(parseCommonAttributes(tagAttributes),
                [frameRate |-> NumberIfTruthy(Attr(tagAttributes, <<"F","R","A","M","E","-","R","A","T","E">>)),
                 audio |-> Attr(tagAttributes, <<"A","U","D","I","O">>),
                 subtitles |-> Attr(tagAttributes, <<"S","U","B","T","I","T","L","E","S">>),
                 closedCaptions |-> Attr(tagAttributes, <<"C","L","O","S","E","D","-","C","A","P","T","I","O","N","S">>)])
    IN  [p EXCEPT !.sharedState.currentVariant = ObjectAssign(@, variantStream),
                  !.sharedState.isMultivariantPlaylist = TRUE]

\* An EXT-X-I-FRAME-STREAM-INF that makes the playlist a multivariant one for
\* the URI lines that follow.
iFrameStreamInfSwitchingKind(tagAttributes, p) ==
    LET uri == Attr(tagAttributes, <<"U","R","I">>).v
        baseUrl == p.sharedState.baseUrl
        p1 == resolveUriAttributeWarn(EXT_X_I_FRAME_STREAM_INF, uri, baseUrl, <<"U","R","I">>, p)
        iFrameStreamInf ==
            ObjectAssign(parseCommonAttributes(tagAttributes),
                [uri |-> uri, resolvedUri |-> resolveUriAttributeValue(uri, baseUrl).v])
    IN  [p1 EXCEPT !.playlist.iFramePlaylists = Append(@, iFrameStreamInf),
                   !.sharedState.isMultivariantPlaylist = TRUE]

\* EXT-X-I-FRAME-STREAM-INF
ExtXIFrameStreamInfSafeProcess(tagAttributes, p) ==
    LET uri == Attr(tagAttributes, <<"U","R","I">>).v
        baseUrl == p.sharedState.baseUrl
        p1 == resolveUriAttributeWarn(EXT_X_I_FRAME_STREAM_INF, uri, baseUrl, <<"U","R","I">>, p)
        iFrameStreamInf ==
            ObjectAssign(parseCommonAttributes(tagAttributes),
                [uri |-> uri, resolvedUri |-> resolveUriAttributeValue(uri, baseUrl).v])
    IN  [p1 EXCEPT !.playlist.iFramePlaylists = Append(@, iFrameStreamInf)]

\* EncryptionTagProcessor.parseEncryptionTag
parseEncryptionTag(tagAttributes, sharedState) ==
    LET uri == Attr(tagAttributes, <<"U","R","I">>)
        versions == Attr(tagAttributes, <<"K","E","Y","F","O","R","M","A","T","V","E","R","S","I","O","N","S">>)
    IN  [kind |-> "encryption",
         method |-> Attr(tagAttributes, <<"M","E","T","H","O","D">>),
         uri |-> uri,
         resolvedUri |-> IF Truthy(uri) THEN resolveUriAttributeValue(uri.v, sharedState.baseUrl)
                         ELSE Undefined,
         iv |-> Attr(tagAttributes, <<"I","V">>),
         keyFormat |-> IF Truthy(Attr(tagAttributes, <<"K","E","Y","F","O","R","M","A","T">>))
                       THEN Attr(tagAttributes, <<"K","E","Y","F","O","R","M","A","T">>) ELSE Str(<<"i","d","e","n","t","i","t","y">>),
         keyFormatVersions |->
             IF Truthy(versions)
             THEN [i \in 1..Len(Split(versions.v, "/")) |-> JsNumber(Str(Split(versions.v, "/")[i]))]
             ELSE <<Num(1)>>]

parseEncryptionTagWarn(tag, tagAttributes, p) ==
    IF Truthy(Attr(tagAttributes, <<"U","R","I">>))
    THEN resolveUriAttributeWarn(tag, Attr(tagAttributes, <<"U","R","I">>).v, p.sharedState.baseUrl, <<"U","R","I">>, p)
    ELSE p

\* An EXT-X-KEY for which METHOD=NONE means no key at all.
keyNoneClearsEncryption(tagAttributes, p) ==
    LET encryption == parseEncryptionTag(tagAttributes, p.sharedState)
        p1 == parseEncryptionTagWarn(EXT_X_KEY, tagAttributes, p)
    IN  IF encryption.method = Str(<<"N","O","N","E">>)
        THEN [p1 EXCEPT !.sharedState.currentEncryption = Undefined]
        ELSE IF ~Truthy(encryption.uri)
        THEN Warn(p1, missingRequiredAttributeWarn(EXT_X_KEY, <<"U","R","I">>))
        ELSE [p1 EXCEPT !.sharedState.currentEncryption = encryption]

\* An EXT-X-KEY that warns of the missing URI and takes the key all the same.
keyTakenWithoutUri(tagAttributes, p) ==
    LET encryption == parseEncryptionTag(tagAttributes, p.sharedState)
        p1 == parseEncryptionTagWarn(EXT_X_KEY, tagAttributes, p)
        p2 == IF encryption.method # Str(<<"N","O","N","E">>) /\ ~Truthy(encryption.uri)
              THEN Warn(p1, missingRequiredAttributeWarn(EXT_X_KEY, <<"U","R","I">>))
              ELSE p1
    IN  [p2 EXCEPT !.sharedState.currentEncryption = encryption]

\* EXT-X-KEY
ExtXKeySafeProcess(tagAttributes, p) ==
    LET encryption == parseEncryptionTag(tagAttributes, p.sharedState)
        p1 == parseEncryptionTagWarn(EXT_X_KEY, tagAttributes, p)
    IN  IF encryption.method # Str(<<"N","O","N","E">>) /\ ~Truthy(encryption.uri)
        THEN Warn(p1, missingRequiredAttributeWarn(EXT_X_KEY, <<"U","R","I">>))
        ELSE [p1 EXCEPT !.sharedState.currentEncryption = encryption]

\* An EXT-X-MAP that leaves the byte range out of the map.
mapWithoutByteRange(tagAttributes, p) ==
    LET uri == Attr(tagAttributes, <<"U","R","I">>).v
        baseUrl == p.sharedState.baseUrl
        p1 == resolveUriAttributeWarn(EXT_X_MAP, uri, baseUrl, <<"U","R","I">>, p)
    IN  [p1 EXCEPT !.sharedState.currentMap =
            [kind |-> "map", uri |-> uri,
             resolvedUri |-> resolveUriAttributeValue(uri, baseUrl).v,
             byteRange |-> Undefined,
             encryption |-> p.sharedState.currentEncryption]]

\* EXT-X-MAP
ExtXMapSafeProcess(tagAttributes, p) ==
    LET range == Attr(tagAttributes, <<"B","Y","T","E","R","A","N","G","E">>)
        length == JsNumber(At(Split(range.v, "@"), 1))
        offset == IF Len(Split(range.v, "@")) >= 2
                  THEN JsNumber(At(Split(range.v, "@"), 2)) ELSE Undefined
        byteRange == IF Truthy(range)
                     THEN [kind |-> "byteRange", start |-> offset,
                           end |-> JsSub(JsAdd(offset, length), Num(1))]
                     ELSE Undefined
        uri == Attr(tagAttributes, <<"U","R","I">>).v
        baseUrl == p.sharedState.baseUrl
        p1 == resolveUriAttributeWarn(EXT_X_MAP, uri, baseUrl, <<"U","R","I">>, p)
    IN  [p1 EXCEPT !.sharedState.currentMap =
            [kind |-> "map", uri |-> uri,
             resolvedUri |-> resolveUriAttributeValue(uri, baseUrl).v,
             byteRange |-> byteRange,
             encryption |-> p.sharedState.currentEncryption]]

\* An EXT-X-PART that warns of the byte range it cannot place and appends the
\* part without it.
partAppendedWithoutRange(tagAttributes, p) ==
    LET uri == Attr(tagAttributes, <<"U","R","I">>)
        baseUrl == p.sharedState.baseUrl
        p1 == IF uri.kind = "string"
              THEN resolveUriAttributeWarn(EXT_X_PART, uri.v, baseUrl, <<"U","R","I">>, p)
              ELSE p
        part == [uri |-> uri,
                 resolvedUri |-> IF uri.kind = "string"
                                 THEN resolveUriAttributeValue(uri.v, baseUrl) ELSE uri,
                 duration |-> JsNumber(Attr(tagAttributes, <<"D","U","R","A","T","I","O","N">>)),
                 isGap |-> parseBoolean(Attr(tagAttributes, <<"G","A","P">>), FALSE),
                 independent |-> parseBoolean(Attr(tagAttributes, <<"I","N","D","E","P","E","N","D","E","N","T">>), FALSE),
                 byteRange |-> Undefined]
        range == Attr(tagAttributes, <<"B","Y","T","E","R","A","N","G","E">>)
        values == Split(range.v, "@")
        length == JsNumber(At(values, 1))
        offset == JsNumber(At(values, 2))
        parts == p.sharedState.currentSegment.parts
        hasPrevious == IF parts = <<>> THEN FALSE
                       ELSE parts[Len(parts)].byteRange # Undefined
        start == IF offset.kind = "NaN"
                 THEN JsAdd(parts[Len(parts)].byteRange.end, Num(1))
                 ELSE offset
    IN  IF ~Truthy(range)
        THEN [p1 EXCEPT !.sharedState.currentSegment.parts = Append(@, part)]
        ELSE IF offset.kind = "NaN" /\ ~hasPrevious
        THEN [Warn(p1, partByteRangeWithoutPreviousWarn(EXT_X_PART))
                 EXCEPT !.sharedState.currentSegment.parts = Append(@, part)]
        ELSE [p1 EXCEPT !.sharedState.currentSegment.parts =
                 Append(@, [part EXCEPT !.byteRange =
                               [kind |-> "byteRange", start |-> start,
                                end |-> JsSub(JsAdd(start, length), Num(1))]])]

\* EXT-X-PART
ExtXPartSafeProcess(tagAttributes, p) ==
    LET uri == Attr(tagAttributes, <<"U","R","I">>)
        baseUrl == p.sharedState.baseUrl
        p1 == IF uri.kind = "string"
              THEN resolveUriAttributeWarn(EXT_X_PART, uri.v, baseUrl, <<"U","R","I">>, p)
              ELSE p
        part == [uri |-> uri,
                 resolvedUri |-> IF uri.kind = "string"
                                 THEN resolveUriAttributeValue(uri.v, baseUrl) ELSE uri,
                 duration |-> JsNumber(Attr(tagAttributes, <<"D","U","R","A","T","I","O","N">>)),
                 isGap |-> parseBoolean(Attr(tagAttributes, <<"G","A","P">>), FALSE),
                 independent |-> parseBoolean(Attr(tagAttributes, <<"I","N","D","E","P","E","N","D","E","N","T">>), FALSE),
                 byteRange |-> Undefined]
        range == Attr(tagAttributes, <<"B","Y","T","E","R","A","N","G","E">>)
        values == Split(range.v, "@")
        length == JsNumber(At(values, 1))
        offset == JsNumber(At(values, 2))
        parts == p.sharedState.currentSegment.parts
        hasPrevious == IF parts = <<>> THEN FALSE
                       ELSE parts[Len(parts)].byteRange # Undefined
        start == IF offset.kind = "NaN"
                 THEN JsAdd(parts[Len(parts)].byteRange.end, Num(1))
                 ELSE offset
    IN  IF ~Truthy(range)
        THEN [p1 EXCEPT !.sharedState.currentSegment.parts = Append(@, part)]
        ELSE IF offset.kind = "NaN" /\ ~hasPrevious
        THEN Warn(p1, partByteRangeWithoutPreviousWarn(EXT_X_PART))
        ELSE [p1 EXCEPT !.sharedState.currentSegment.parts =
                 Append(@, [part EXCEPT !.byteRange =
                               [kind |-> "byteRange", start |-> start,
                                end |-> JsSub(JsAdd(start, length), Num(1))]])]

\* new URL(baseUrl).searchParams.get(queryParam): the value of the first
\* key=value pair of the query with that key, null when there is none.
RECURSIVE searchParamsGet(_, _)
searchParamsGet(pairs, queryParam) ==
    IF pairs = <<>> THEN Null
    ELSE LET eq == IndexOf(Head(pairs), "=", 1)
             key == IF eq = 0 THEN Head(pairs) ELSE SubSeq(Head(pairs), 1, eq - 1)
             value == IF eq = 0 THEN <<>> ELSE SubSeq(Head(pairs), eq + 1, Len(Head(pairs)))
         IN  IF key = queryParam /\ Head(pairs) # <<>> THEN Str(value)
             ELSE searchParamsGet(Tail(pairs), queryParam)

\* ExtXDefine.getValueForQueryParamDefine
getValueForQueryParamDefine(queryParam, sharedState) ==
    LET baseUrl == sharedState.baseUrl
        q == IndexOf(baseUrl, "?", 1)
    IN  CASE baseUrl = <<>> -> Null
          [] ~IsAbsoluteUri(baseUrl) -> Null
          [] q = 0 -> Null
          [] OTHER -> searchParamsGet(Split(SubSeq(baseUrl, q + 1, Len(baseUrl)), "&"), queryParam)

\* ExtXDefine.getValueForImportDefine
getValueForImportDefine(importName, sharedState) ==
    LET baseDefine == sharedState.baseDefine
    IN  CASE baseDefine.kind = "undefined" -> Null
          [] Truthy(Lookup(baseDefine.name, importName)) -> Lookup(baseDefine.name, importName)
          [] Truthy(Lookup(baseDefine.import, importName)) -> Lookup(baseDefine.import, importName)
          [] Truthy(Lookup(baseDefine.queryParam, importName)) ->
                Lookup(baseDefine.queryParam, importName)
          [] OTHER -> Null

\* EXT-X-DEFINE: the three `if` statements run one after the other.
ExtXDefineSafeProcess(tagAttributes, p) ==
    LET name == Attr(tagAttributes, <<"N","A","M","E">>)
        import == Attr(tagAttributes, <<"I","M","P","O","R","T">>)
        queryParam == Attr(tagAttributes, <<"Q","U","E","R","Y","P","A","R","A","M">>)
        p1 == IF Truthy(name)
              THEN [p EXCEPT !.playlist.define.name =
                                 Store(@, name.v, Attr(tagAttributes, <<"V","A","L","U","E">>)),
                             !.sharedState.hasVariablesForSubstitution = TRUE]
              ELSE p
        importValue == getValueForImportDefine(import.v, p1.sharedState)
        p2 == IF Truthy(import)
              THEN [p1 EXCEPT !.playlist.define.import = Store(@, import.v, importValue),
                              !.sharedState.hasVariablesForSubstitution =
                                  IF importValue.kind # "null" THEN TRUE ELSE @]
              ELSE p1
        queryValue == getValueForQueryParamDefine(queryParam.v, p2.sharedState)
    IN  IF Truthy(queryParam)
        THEN [p2 EXCEPT !.playlist.define.queryParam = Store(@, queryParam.v, queryValue),
                        !.sharedState.hasVariablesForSubstitution =
                            IF queryValue.kind # "null" THEN TRUE ELSE @]
        ELSE p2

safeProcess(tag, tagAttributes, p) ==
    CASE tag = EXT_X_SKIP -> ExtXSkipSafeProcess(tagAttributes, p)
      [] tag = EXT_X_MEDIA -> ExtXMediaSafeProcess(tagAttributes, p)
      [] tag = EXT_X_STREAM_INF -> ExtXStreamInfSafeProcess(tagAttributes, p)
      [] tag = EXT_X_I_FRAME_STREAM_INF -> ExtXIFrameStreamInfSafeProcess(tagAttributes, p)
      [] tag = EXT_X_KEY -> ExtXKeySafeProcess(tagAttributes, p)
      [] tag = EXT_X_MAP -> ExtXMapSafeProcess(tagAttributes, p)
      [] tag = EXT_X_PART -> ExtXPartSafeProcess(tagAttributes, p)
      [] tag = EXT_X_DEFINE -> ExtXDefineSafeProcess(tagAttributes, p)
      [] OTHER -> p

\* A process that warns of the missing attributes and goes on.
processDespiteMissing(tag, tagAttributes, p) ==
    LET missing == checkRequiredAttributes(tag, tagAttributes)
        substituted == runVariableSubstitution(tag, tagAttributes,
                                               [p EXCEPT !.warned = @ \o missing])
    IN  safeProcess(tag, substituted.tagAttributes, substituted.p)

\* A process that gives safeProcess the attributes as they were before the
\* substitution.
processBeforeSubstitution(tag, tagAttributes, p) ==
    LET missing == checkRequiredAttributes(tag, tagAttributes)
        substituted == runVariableSubstitution(tag, tagAttributes, p)
    IN  IF missing # <<>> THEN [p EXCEPT !.warned = @ \o missing]
        ELSE safeProcess(tag, tagAttributes, substituted.p)

\* TagWithAttributesProcessor.process
TagWithAttributesProcess(tag, tagAttributes, p) ==
    LET missing == checkRequiredAttributes(tag, tagAttributes)
        substituted == runVariableSubstitution(tag, tagAttributes, p)
    IN  IF missing # <<>> THEN [p EXCEPT !.warned = @ \o missing]
        ELSE safeProcess(tag, substituted.tagAttributes, substituted.p)

\* ------------------------------------------------------------------------
\* Parser (parse.ts): the two callbacks the scanner calls
\* ------------------------------------------------------------------------

\* The caller's handler for a custom tag: it records the tag's value and
\* attributes in playlist.custom under the tag's name.
customTagProcessor(tagKey, tagValue, tagAttributes, p) ==
    [Call(p, "customTagProcessor", tagKey, tagValue, tagAttributes)
        EXCEPT !.playlist.custom =
                   Store(@, tagKey, [tagValue |-> tagValue, tagAttributes |-> tagAttributes])]

\* this.transformTagValue: the constructor's default returns the value it is
\* given, the caller's "null" returns null for every tag.
transformTagValue(parserOptions, tagKey, tagValue) ==
    IF parserOptions.transformTagValue = "default" THEN tagValue ELSE Null

\* this.transformTagAttributes: the constructor's default returns the attributes
\* it is given, the caller's "empty" returns an object without attributes.
transformTagAttributes(parserOptions, tagKey, tagAttributes) ==
    IF parserOptions.transformTagAttributes = "default" THEN tagAttributes ELSE <<>>

\* A branch of tagValueMap that gives the processor an empty string for null.
valueTagInfoWithoutNullCheck(parserOptions, tagKey, tagValue, p) ==
    TagWithValueProcess(tagKey, IF tagValue.kind = "null" THEN <<>> ELSE tagValue.v, p)

\* tagInfoCallback, the branch of a tag of tagValueMap.
valueTagInfo(parserOptions, tagKey, tagValue, p) ==
    IF tagValue.kind = "null" THEN Warn(p, missingTagValueWarn(tagKey))
    ELSE TagWithValueProcess(tagKey, tagValue.v, p)

\* A tagInfoCallback that looks into customTagMap before the maps of the
\* built-in tags.
tagInfoCallbackCustomFirst(parserOptions, tagKey, tagValue, tagAttributes, p) ==
    CASE tagKey \in parserOptions.ignoreTags ->
            Warn(Call(p, "debugCallback", tagKey, tagValue, tagAttributes),
                 ignoreTagWarn(tagKey))
      [] tagKey \in parserOptions.customTagMap ->
            customTagProcessor(tagKey, tagValue, tagAttributes,
                               Call(p, "debugCallback", tagKey, tagValue, tagAttributes))
      [] tagKey \in emptyTagMap ->
            EmptyTagProcess(tagKey, Call(p, "debugCallback", tagKey, tagValue, tagAttributes))
      [] tagKey \in tagValueMap ->
            valueTagInfo(parserOptions, tagKey,
                         transformTagValue(parserOptions, tagKey, tagValue),
                         Call(Call(p, "debugCallback", tagKey, tagValue, tagAttributes),
                              "transformTagValue", tagKey, tagValue, <<>>))
      [] tagKey \in tagAttributesMap ->
            TagWithAttributesProcess(
                tagKey,
                transformTagAttributes(parserOptions, tagKey, tagAttributes),
                Call(Call(p, "debugCallback", tagKey, tagValue, tagAttributes),
                     "transformTagAttributes", tagKey, Null, tagAttributes))
      [] OTHER ->
            Warn(Call(p, "debugCallback", tagKey, tagValue, tagAttributes),
                 unsupportedTagWarn(tagKey))

\* Parser.tagInfoCallback
tagInfoCallback(parserOptions, tagKey, tagValue, tagAttributes, p) ==
    CASE tagKey \in parserOptions.ignoreTags ->
            Warn(Call(p, "debugCallback", tagKey, tagValue, tagAttributes),
                 ignoreTagWarn(tagKey))
      [] tagKey \in emptyTagMap ->
            EmptyTagProcess(tagKey, Call(p, "debugCallback", tagKey, tagValue, tagAttributes))
      [] tagKey \in tagValueMap ->
            valueTagInfo(parserOptions, tagKey,
                         transformTagValue(parserOptions, tagKey, tagValue),
                         Call(Call(p, "debugCallback", tagKey, tagValue, tagAttributes),
                              "transformTagValue", tagKey, tagValue, <<>>))
      [] tagKey \in tagAttributesMap ->
            TagWithAttributesProcess(
                tagKey,
                transformTagAttributes(parserOptions, tagKey, tagAttributes),
                Call(Call(p, "debugCallback", tagKey, tagValue, tagAttributes),
                     "transformTagAttributes", tagKey, Null, tagAttributes))
      [] tagKey \in parserOptions.customTagMap ->
            customTagProcessor(tagKey, tagValue, tagAttributes,
                               Call(p, "debugCallback", tagKey, tagValue, tagAttributes))
      [] OTHER ->
            Warn(Call(p, "debugCallback", tagKey, tagValue, tagAttributes),
                 unsupportedTagWarn(tagKey))

\* A handleCurrentVariant that goes on with the variant it has appended.
handleCurrentVariantKeepingCurrent(uri, resolvedUri, p) ==
    LET variant == [p.sharedState.currentVariant EXCEPT !.uri = uri, !.resolvedUri = resolvedUri]
    IN  [p EXCEPT !.playlist.variantStreams = Append(@, variant),
                  !.sharedState.currentVariant = variant]

\* Parser.handleCurrentVariant
handleCurrentVariant(uri, resolvedUri, p) ==
    LET variant == [p.sharedState.currentVariant EXCEPT !.uri = uri, !.resolvedUri = resolvedUri]
    IN  [p EXCEPT !.playlist.variantStreams = Append(@, variant),
                  !.sharedState.currentVariant = createDefaultVariantStream]

\* A segment that takes the media sequence of the previous one as it is.
sameMediaSequence(previousSegment) == previousSegment.mediaSequence

\* A discontinuity sequence that is carried over and never incremented.
discontinuitySequenceUnchanged(currentSegment, previousSegment) ==
    previousSegment.discontinuitySequence

\* An end time that leaves the start time out.
endTimeWithoutStart(startTime, duration) == duration

\* handleCurrentSegment: currentSegment.mediaSequence = previousSegment.mediaSequence + 1
nextMediaSequence(previousSegment) == previousSegment.mediaSequence + 1

\* handleCurrentSegment: the discontinuity sequence of a segment that has a
\* previous one.
nextDiscontinuitySequence(currentSegment, previousSegment) ==
    IF currentSegment.isDiscontinuity
    THEN previousSegment.discontinuitySequence + 1
    ELSE previousSegment.discontinuitySequence

\* handleCurrentSegment: currentSegment.endTime = startTime + duration
segmentEndTime(startTime, duration) == startTime + duration

\* An end of handleCurrentSegment that goes on with the segment it has appended.
segmentFinalizedKeepingCurrent(p, segment) ==
    [p EXCEPT !.playlist.segments = Append(@, segment),
              !.sharedState.currentSegment = segment]

\* An end of handleCurrentSegment at which a segment with a byte range ends the
\* current bitrate.
segmentFinalizedEndingBitrate(p, segment) ==
    [p EXCEPT !.playlist.segments = Append(@, segment),
              !.sharedState.currentSegment = createDefaultSegment,
              !.sharedState.currentBitrate =
                  IF segment.byteRange # Undefined THEN Undefined ELSE @]

\* The end of handleCurrentSegment: the segment is appended and a new default
\* segment becomes the current one.
segmentFinalized(p, segment) ==
    [p EXCEPT !.playlist.segments = Append(@, segment),
              !.sharedState.currentSegment = createDefaultSegment]

\* Parser.handleCurrentSegment
handleCurrentSegment(uri, resolvedUri, p) ==
    LET playlist == p.playlist
        sharedState == p.sharedState
        cur == sharedState.currentSegment
        exceeded == /\ playlist.targetDuration.kind # "undefined"
                    /\ cur.duration > playlist.targetDuration.v
        p1 == IF exceeded
              THEN Warn(p, segmentDurationExceededTargetDuration(
                               uri, cur.duration, playlist.targetDuration.v))
              ELSE p
        hasPrevious == playlist.segments # <<>>
        previousSegment == playlist.segments[Len(playlist.segments)]
        startTime == IF hasPrevious THEN previousSegment.endTime ELSE sharedState.baseTime
        pdtStart == IF /\ ~Truthy(cur.programDateTimeStart)
                       /\ hasPrevious
                       /\ Truthy(previousSegment.programDateTimeStart)
                    THEN Num(previousSegment.programDateTimeStart.v + previousSegment.duration * 1000)
                    ELSE cur.programDateTimeStart
        segment ==
            [cur EXCEPT
                !.encryption = sharedState.currentEncryption,
                !.map = sharedState.currentMap,
                !.uri = uri,
                !.resolvedUri = resolvedUri,
                !.startTime = startTime,
                !.mediaSequence = IF hasPrevious THEN nextMediaSequence(previousSegment) ELSE @,
                !.discontinuitySequence =
                    IF hasPrevious THEN nextDiscontinuitySequence(cur, previousSegment) ELSE @,
                !.endTime = segmentEndTime(startTime, cur.duration),
                !.bitrate = IF Truthy(sharedState.currentBitrate) /\ ~Truthy(cur.byteRange)
                            THEN sharedState.currentBitrate ELSE @,
                !.programDateTimeStart = pdtStart,
                !.programDateTimeEnd = IF Truthy(pdtStart)
                                       THEN Num(pdtStart.v + cur.duration * 1000) ELSE @]
    IN  segmentFinalized(p1, segment)

\* A uriInfoCallback that gives up the URI when it cannot be resolved.
uriInfoCallbackDroppingUnresolved(uri, p) ==
    LET substituted == IF p.sharedState.hasVariablesForSubstitution
                       THEN substituteVariables(uri, p.playlist.define)
                       ELSE [text |-> uri, missing |-> <<>>]
        p1 == [p EXCEPT !.warned = @ \o
                  [j \in 1..Len(substituted.missing) |->
                      missingRequiredVariableForUriSubstitutionWarn(uri, substituted.missing[j])]]
        resolved == resolveUri(substituted.text, p.sharedState.baseUrl)
    IN  IF resolved.kind = "null"
        THEN Warn(p1, failedToResolveUri(substituted.text, p.sharedState.baseUrl))
        ELSE IF p.sharedState.isMultivariantPlaylist
        THEN handleCurrentVariant(substituted.text, resolved.v, p1)
        ELSE handleCurrentSegment(substituted.text, resolved.v, p1)

\* Parser.uriInfoCallback
uriInfoCallback(uri, p) ==
    LET substituted == IF p.sharedState.hasVariablesForSubstitution
                       THEN substituteVariables(uri, p.playlist.define)
                       ELSE [text |-> uri, missing |-> <<>>]
        p1 == [p EXCEPT !.warned = @ \o
                  [j \in 1..Len(substituted.missing) |->
                      missingRequiredVariableForUriSubstitutionWarn(uri, substituted.missing[j])]]
        resolved == resolveUri(substituted.text, p.sharedState.baseUrl)
        p2 == IF resolved.kind = "null"
              THEN Warn(p1, failedToResolveUri(substituted.text, p.sharedState.baseUrl))
              ELSE p1
        resolvedUri == IF resolved.kind = "null" THEN substituted.text ELSE resolved.v
    IN  IF p.sharedState.isMultivariantPlaylist
        THEN handleCurrentVariant(substituted.text, resolvedUri, p2)
        ELSE handleCurrentSegment(substituted.text, resolvedUri, p2)

\* A gatherParseOptions that leaves the base time alone.
gatherParseOptionsWithoutBaseTime(options, sharedState) ==
    [sharedState EXCEPT !.baseDefine = options.baseDefine,
                        !.baseUrl = options.baseUrl]

\* Parser.gatherParseOptions
gatherParseOptions(options, sharedState) ==
    [sharedState EXCEPT !.baseDefine = options.baseDefine,
                        !.baseUrl = options.baseUrl,
                        !.baseTime = IF Truthy(options.baseTime) THEN options.baseTime.v ELSE 0]

\* ------------------------------------------------------------------------
\* The character scanner (stateMachine.ts)
\* ------------------------------------------------------------------------

createStateMachine == [state |-> "LineStart", tagKey |-> <<>>, acc |-> <<>>]

\* One call of the function createStateMachine returns: the scanner's step, with the callback it makes
\* on a newline.  A callback that throws leaves the scanner where it was.
StateMachineTransition(parserOptions, c, p) ==
    LET sm == p.stateMachine
        reset == [p EXCEPT !.stateMachine = createStateMachine]
        emit(q) == IF q.thrown THEN [q EXCEPT !.stateMachine = sm] ELSE q
    IN  CASE sm.state = "LineStart" ->
                CASE c = "#" -> [p EXCEPT !.stateMachine.state = "TagStartMaybe"]
                  [] c = NL \/ IsWhitespace(c) -> p
                  [] OTHER -> [p EXCEPT !.stateMachine.state = "UriAccumulate",
                                        !.stateMachine.acc = <<c>>]
          [] sm.state = "TagStartMaybe" ->
                CASE c = NL -> reset
                  [] c = "E" -> [p EXCEPT !.stateMachine.state = "TagNameOrBody",
                                          !.stateMachine.tagKey = <<c>>]
                  [] OTHER -> [p EXCEPT !.stateMachine.state = "Comment"]
          [] sm.state = "Comment" -> IF c = NL THEN reset ELSE p
          [] sm.state = "TagNameOrBody" ->
                CASE c = NL -> emit(tagInfoCallback(parserOptions, sm.tagKey, Null, <<>>, reset))
                  [] c = ":" -> [p EXCEPT !.stateMachine.state = "TagBody"]
                  [] OTHER -> [p EXCEPT !.stateMachine.tagKey = Append(@, c)]
          [] sm.state = "TagBody" ->
                IF c = NL
                THEN LET body == parseAttributeList(sm.acc)
                     IN  emit(tagInfoCallback(parserOptions, sm.tagKey, body.tagValue,
                                              body.tagAttributes, reset))
                ELSE [p EXCEPT !.stateMachine.acc = Append(@, c)]
          [] sm.state = "UriAccumulate" ->
                IF c = NL THEN emit(uriInfoCallback(Trim(sm.acc), reset))
                ELSE [p EXCEPT !.stateMachine.acc = Append(@, c)]

\* The loop `for (i = 0; i < length; i++) stateMachine(chunk[i])`: an exception
\* ends it.  The characters are given in order, the first half of the chunk
\* before the second.
RECURSIVE feed(_, _, _)
feed(parserOptions, chunk, p) ==
    CASE chunk = <<>> \/ p.thrown -> p
      [] Len(chunk) = 1 -> StateMachineTransition(parserOptions, chunk[1], p)
      [] OTHER ->
            feed(parserOptions, SubSeq(chunk, Len(chunk) \div 2 + 1, Len(chunk)),
                 feed(parserOptions, SubSeq(chunk, 1, Len(chunk) \div 2), p))

\* A transitionToNewLine that gives the scanner nothing.
noNewLine(parserOptions, p) == p

\* Parser.transitionToNewLine
transitionToNewLine(parserOptions, p) == StateMachineTransition(parserOptions, NL, p)

\* ------------------------------------------------------------------------
\* State
\* ------------------------------------------------------------------------

VARIABLES
    kind,            \* the class of the parser instance: "full" or "progressive"
    parserOptions,   \* the ParserOptions given to the constructor
    objects,         \* the playlist objects alive: the parser's and the last one returned
    parsedPlaylist,  \* this.parsedPlaylist, a reference into objects
    sharedState,     \* this.sharedState
    stateMachine,    \* ProgressiveParser.stateMachine: null or the scanner
    returned,        \* the reference returned by the last completed parse, 0 before it
    warned,          \* the warnings the last call passed to warnCallback
    called,          \* the calls of the caller's functions the last call made
    thrown,          \* whether an exception left the last call
    completed,       \* how many parses the instance has completed
    lastCall,        \* the name of the last call
    lastOptions,     \* the ParseOptions of the last parseFull or push call
    library,         \* the lines the caller's texts are made of
    history,         \* the lines given to the parser in the current or the last completed parse
                     \* (in an options run: the pushes, each with its end on the tape and its options)
    tape,            \* the text a character-level run cuts its chunks from
    start,           \* where on the tape the current parse started
    pos              \* how much of the tape (in a reuse run: how many lines) has been given

vars == <<kind, parserOptions, objects, parsedPlaylist, sharedState, stateMachine,
          returned, warned, called, thrown, completed, lastCall, lastOptions, library, history, tape,
          start, pos>>

\* The playlist objects alive: the one the parser works on, the one the caller
\* was given last and the one it was given before that.  A new object takes
\* the place of the oldest.
Refs == {1, 2, 3}

NewRef(ref) == (ref % 3) + 1

defaultParserOptions ==
    [ignoreTags |-> {}, customTagMap |-> {},
     transformTagValue |-> "default", transformTagAttributes |-> "default"]

defaultParseOptions == [baseUrl |-> <<>>, baseDefine |-> Undefined, baseTime |-> Undefined]

\* Parser.constructor
InitWith(kinds, optionSets, libraries, tapes) ==
    /\ kind \in kinds
    /\ library \in libraries
    /\ parserOptions \in optionSets
    /\ objects = [r \in Refs |-> createDefaultParsedPlaylist]
    /\ parsedPlaylist = 1
    /\ sharedState = createDefaultSharedState
    /\ stateMachine = Null
    /\ returned = 0
    /\ warned = <<>>
    /\ called = <<>>
    /\ thrown = FALSE
    /\ completed = 0
    /\ lastCall = "constructor"
    /\ lastOptions = defaultParseOptions
    /\ history = <<>>
    /\ tape \in tapes
    /\ start = 0
    /\ pos = 0

\* The working state a call starts from.
working(sm, ss) ==
    [playlist |-> objects[parsedPlaylist], sharedState |-> ss, stateMachine |-> sm,
     warned |-> <<>>, called |-> <<>>, thrown |-> FALSE]

\* A clean that hands out the playlist object and goes on working on it.
cleanWithoutNewPlaylist(objs, ref) ==
    [returned |-> ref, parsedPlaylist |-> ref, objects |-> objs,
     sharedState |-> createDefaultSharedState]

\* A clean that keeps the shared state the call started with.
cleanKeepingSharedState(objs, ref) ==
    [returned |-> ref,
     parsedPlaylist |-> NewRef(ref),
     objects |-> [objs EXCEPT ![NewRef(ref)] = createDefaultParsedPlaylist],
     sharedState |-> sharedState]

\* A clean that keeps the kind of playlist the parse has found.
cleanKeepingPlaylistKind(objs, ref) ==
    [returned |-> ref,
     parsedPlaylist |-> NewRef(ref),
     objects |-> [objs EXCEPT ![NewRef(ref)] = createDefaultParsedPlaylist],
     sharedState |-> [createDefaultSharedState EXCEPT
                         !.isMultivariantPlaylist = sharedState.isMultivariantPlaylist]]

\* Parser.clean: the playlist object is handed to the caller, the parser gets a
\* new default playlist and a new default shared state.
clean(objs, ref) ==
    [returned |-> ref,
     parsedPlaylist |-> NewRef(ref),
     objects |-> [objs EXCEPT ![NewRef(ref)] = createDefaultParsedPlaylist],
     sharedState |-> createDefaultSharedState]

\* A call that cleans in a `finally`: also after an exception.
LeaveCleaning(p, cleans) ==
    LET kept == [objects EXCEPT ![parsedPlaylist] = p.playlist]
        c == clean(kept, parsedPlaylist)
    IN  /\ warned' = p.warned
        /\ called' = p.called
        /\ thrown' = p.thrown
        /\ completed' = IF cleans /\ ~p.thrown THEN completed + 1 ELSE completed
        /\ IF cleans
           THEN /\ objects' = c.objects
                /\ parsedPlaylist' = c.parsedPlaylist
                /\ sharedState' = c.sharedState
                /\ returned' = c.returned
           ELSE /\ objects' = kept
                /\ sharedState' = p.sharedState
                /\ UNCHANGED <<parsedPlaylist, returned>>

\* What a call leaves behind: after an exception the working state as it was
\* when the exception left, otherwise the cleaned state when the call ends a
\* parse.
Leave(p, cleans) ==
    LET kept == [objects EXCEPT ![parsedPlaylist] = p.playlist]
        c == clean(kept, parsedPlaylist)
    IN  /\ warned' = p.warned
        /\ called' = p.called
        /\ thrown' = p.thrown
        /\ completed' = IF cleans /\ ~p.thrown THEN completed + 1 ELSE completed
        /\ IF cleans /\ ~p.thrown
           THEN /\ objects' = c.objects
                /\ parsedPlaylist' = c.parsedPlaylist
                /\ sharedState' = c.sharedState
                /\ returned' = c.returned
           ELSE /\ objects' = kept
                /\ sharedState' = p.sharedState
                /\ UNCHANGED <<parsedPlaylist, returned>>

\* FullPlaylistParser.parseFullPlaylistString
lastLine(opts, p) == IF p.thrown THEN p ELSE transitionToNewLine(opts, p)

fullParse(options, text) ==
    lastLine(parserOptions,
             feed(parserOptions, text,
                  working(createStateMachine, gatherParseOptions(options, sharedState))))

parseFullPlaylistString(text, options) ==
    /\ kind = "full"
    /\ \E p \in {fullParse(options, text)} : Leave(p, TRUE)
    /\ lastCall' = "parseFullPlaylistString"
    /\ lastOptions' = options
    /\ UNCHANGED <<kind, parserOptions, library, stateMachine>>

\* A pushString that creates a scanner on every call.
pushedWithNewScanner(options, chunk) ==
    feed(parserOptions, chunk,
         working(createStateMachine, gatherParseOptions(options, sharedState)))

\* A pushString that reads the parse options when it creates the scanner only.
pushedWithFirstOptions(options, chunk) ==
    feed(parserOptions, chunk,
         working(IF stateMachine = Null THEN createStateMachine ELSE stateMachine,
                 IF stateMachine = Null THEN gatherParseOptions(options, sharedState)
                 ELSE sharedState))

\* ProgressiveParser.pushString
pushed(options, chunk) ==
    feed(parserOptions, chunk,
         working(IF stateMachine = Null THEN createStateMachine ELSE stateMachine,
                 gatherParseOptions(options, sharedState)))

pushString(chunk, options) ==
    /\ kind = "progressive"
    /\ \E p \in {pushed(options, chunk)} :
          /\ Leave(p, FALSE)
          /\ stateMachine' = p.stateMachine
    /\ lastCall' = "pushString"
    /\ lastOptions' = options
    /\ UNCHANGED <<kind, parserOptions, library>>

\* A done() that gives the scanner no newline.
flushedWithoutNewLine == working(stateMachine, sharedState)

\* ProgressiveParser.done
flushed ==
    IF stateMachine # Null
    THEN transitionToNewLine(parserOptions, working(stateMachine, sharedState))
    ELSE working(Null, sharedState)

done ==
    /\ kind = "progressive"
    /\ \E p \in {flushed} :
          /\ Leave(p, TRUE)
          /\ stateMachine' = IF p.thrown THEN p.stateMachine ELSE Null
    /\ lastCall' = "done"
    /\ UNCHANGED <<kind, parserOptions, library, lastOptions>>

\* ------------------------------------------------------------------------
\* A parse by a newly constructed FullPlaylistParser, as a function of its input
\* ------------------------------------------------------------------------

parseFresh(opts, options, text) ==
    lastLine(opts,
             feed(opts, text,
                  [playlist |-> createDefaultParsedPlaylist,
                   sharedState |-> gatherParseOptions(options, createDefaultSharedState),
                   stateMachine |-> createStateMachine, warned |-> <<>>, called |-> <<>>,
                   thrown |-> FALSE]))

\* ------------------------------------------------------------------------
\* The caller's inputs
\* ------------------------------------------------------------------------

\* All sequences of at most n elements of set S.
RECURSIVE SeqsUpTo(_, _)
SeqsUpTo(S, n) ==
    IF n = 0 THEN {<<>>}
    ELSE SeqsUpTo(S, n - 1) \cup {Append(q, x) : q \in SeqsUpTo(S, n - 1), x \in S}

baseUrlOfPlaylist == <<"h","t","t","p",":","/","/","h","/","v","/","p",".","m","3","u","8","?","t","=","k">>

\* The options of a first load: the playlist's URL, no base time.
playlistParseOptions ==
    [baseUrl |-> baseUrlOfPlaylist, baseDefine |-> Undefined, baseTime |-> Undefined]

\* The options of a later load: no base URL, a base time of 2 seconds.
laterParseOptions == [baseUrl |-> <<>>, baseDefine |-> Undefined, baseTime |-> Num(2)]

ParseOptionSets == {playlistParseOptions, laterParseOptions}

\* A caller that got an exception from a call gives the instance up: every
\* step of these runs has ~thrown as a guard.  The reuse runs have callers that
\* go on.

\* ------------------------------------------------------------------------
\* Line-level runs: a progressive parser is given whole lines, a full parser a
\* text of whole lines.  An instance parses one text.
\* ------------------------------------------------------------------------

MaxLines == 4

ExtInfLine == <<"#","E","X","T","I","N","F",":","5",",","\n">>
UriLine == <<"a",".","t","s","\n">>
DiscontinuityLine == <<"#","E","X","T","-","X","-","D","I","S","C","O","N","T","I","N","U","I","T","Y","\n">>
MediaSequenceLine == <<"#","E","X","T","-","X","-","M","E","D","I","A","-","S","E","Q","U","E","N","C","E",":","7","\n">>
StreamInfLine == <<"#","E","X","T","-","X","-","S","T","R","E","A","M","-","I","N","F",":","B","A","N","D","W","I","D","T","H","=","1","\n">>
SkipLine == <<"#","E","X","T","-","X","-","S","K","I","P",":","S","K","I","P","P","E","D","-","S","E","G","M","E","N","T","S","=","3","\n">>
MediaLine == <<"#","E","X","T","-","X","-","M","E","D","I","A",":","T","Y","P","E","=","X",",","G","R","O","U","P","-","I","D","=","\"","g","\"",",","N","A","M","E","=","\"","n","\"","\n">>

SegmentLines ==
    {ExtInfLine, UriLine, DiscontinuityLine, MediaSequenceLine, StreamInfLine, SkipLine,
     MediaLine}

DefineLine == <<"#","E","X","T","-","X","-","D","E","F","I","N","E",":","N","A","M","E","=","\"","X","\"",",","V","A","L","U","E","=","\"","v","\"","\n">>
VariableUriLine == <<"{","$","X","}","{","$","Y","}","\n">>
VariableMapLine == <<"#","E","X","T","-","X","-","M","A","P",":","U","R","I","=","\"","{","$","X","}","{","$","Y","}","\"","\n">>
VariableKeyLine == <<"#","E","X","T","-","X","-","K","E","Y",":","U","R","I","=","\"","{","$","Y","}","\"","\n">>

VariableLines == {DefineLine, VariableUriLine, VariableMapLine, VariableKeyLine}

CommentLine == <<"#","c","\n">>
ECommentLine == <<"#","E","n","d","\n">>
BlankLine == <<"\n">>
SpaceLine == <<" ","\t","\n">>
PaddedUriLine == <<" ","a",".","t","s"," ","\n">>
M3uLine == <<"#","E","X","T","M","3","U","\n">>

KeyVariablesLine == <<"#","E","X","T","-","X","-","K","E","Y",":","M","E","T","H","O","D","=","N","O","N","E",",","U","R","I","=","\"","{","$","X","}","\"",",","I","V","=","{","$","Y","}","\n">>
PartialPartLine == <<"#","E","X","T","-","X","-","P","A","R","T",":","G","A","P","=","Y","E","S","\n">>

ProcessorLines == {DefineLine, VariableKeyLine, KeyVariablesLine, PartialPartLine, UriLine}

StreamInfCodecsLine == <<"#","E","X","T","-","X","-","S","T","R","E","A","M","-","I","N","F",":","B","A","N","D","W","I","D","T","H","=","2",",","C","O","D","E","C","S","=","\"","a","\"","\n">>
StreamInfBareLine == <<"#","E","X","T","-","X","-","S","T","R","E","A","M","-","I","N","F",":","C","O","D","E","C","S","=","\"","b","\"","\n">>

VariantLines == {StreamInfLine, StreamInfCodecsLine, StreamInfBareLine, UriLine}

ExtInfTitledLine == <<"#","E","X","T","I","N","F",":","5",",","t","\n">>
GapLine == <<"#","E","X","T","-","X","-","G","A","P","\n">>
ByteRangeLine == <<"#","E","X","T","-","X","-","B","Y","T","E","R","A","N","G","E",":","2","@","3","\n">>
PdtLine == <<"#","E","X","T","-","X","-","P","R","O","G","R","A","M","-","D","A","T","E","-","T","I","M","E",":","1","9","7","0","-","0","1","-","0","1","T","0","0",":","0","0",":","0","9","Z","\n">>
PartLine == <<"#","E","X","T","-","X","-","P","A","R","T",":","U","R","I","=","\"","p","\"",",","D","U","R","A","T","I","O","N","=","1","\n">>

PerSegmentLines ==
    {ExtInfTitledLine, DiscontinuityLine, GapLine, ByteRangeLine, PdtLine, PartLine, UriLine}

KeyLine == <<"#","E","X","T","-","X","-","K","E","Y",":","M","E","T","H","O","D","=","A","E","S","-","1","2","8",",","U","R","I","=","\"","k","\"","\n">>
KeyNoneLine == <<"#","E","X","T","-","X","-","K","E","Y",":","M","E","T","H","O","D","=","N","O","N","E","\n">>
KeyWithoutUriLine == <<"#","E","X","T","-","X","-","K","E","Y",":","M","E","T","H","O","D","=","A","E","S","-","1","2","8","\n">>
KeyEmptyUriLine == <<"#","E","X","T","-","X","-","K","E","Y",":","M","E","T","H","O","D","=","A","E","S","-","1","2","8",",","U","R","I","=","\"","\"","\n">>

KeyLines == {KeyLine, KeyNoneLine, KeyWithoutUriLine, KeyEmptyUriLine, UriLine}

MapLine == <<"#","E","X","T","-","X","-","M","A","P",":","U","R","I","=","\"","m","\"","\n">>
MapRangeLine == <<"#","E","X","T","-","X","-","M","A","P",":","U","R","I","=","\"","n","\"",",","B","Y","T","E","R","A","N","G","E","=","\"","2","@","3","\"","\n">>
MapWithoutUriLine == <<"#","E","X","T","-","X","-","M","A","P",":","B","Y","T","E","R","A","N","G","E","=","\"","2","@","3","\"","\n">>

MapLines == {MapLine, MapRangeLine, MapWithoutUriLine, UriLine}

BitrateLine == <<"#","E","X","T","-","X","-","B","I","T","R","A","T","E",":","8","\n">>
BitrateZeroLine == <<"#","E","X","T","-","X","-","B","I","T","R","A","T","E",":","0","\n">>

BitrateLines == {BitrateLine, BitrateZeroLine, ByteRangeLine, UriLine}

PdtZeroLine == <<"#","E","X","T","-","X","-","P","R","O","G","R","A","M","-","D","A","T","E","-","T","I","M","E",":","1","9","7","0","-","0","1","-","0","1","T","0","0",":","0","0",":","0","0","Z","\n">>

PdtLines == {PdtLine, PdtZeroLine, ExtInfLine, UriLine}

PartRangeLine == <<"#","E","X","T","-","X","-","P","A","R","T",":","U","R","I","=","\"","p","\"",",","D","U","R","A","T","I","O","N","=","1",",","B","Y","T","E","R","A","N","G","E","=","\"","2","@","3","\"","\n">>
PartLengthLine == <<"#","E","X","T","-","X","-","P","A","R","T",":","U","R","I","=","\"","p","\"",",","D","U","R","A","T","I","O","N","=","1",",","B","Y","T","E","R","A","N","G","E","=","\"","2","\"","\n">>

PartLines == {PartRangeLine, PartLengthLine, PartLine, UriLine}

SkipRemovedLine == <<"#","E","X","T","-","X","-","S","K","I","P",":","S","K","I","P","P","E","D","-","S","E","G","M","E","N","T","S","=","3",",","R","E","C","E","N","T","L","Y","-","R","E","M","O","V","E","D","-","D","A","T","E","R","A","N","G","E","S","=","\"","a","\t","b","\"","\n">>

SkipLines == {SkipLine, SkipRemovedLine, UriLine}

OtherUriLine == <<"b",".","t","s","\n">>
IFrameStreamInfLine == <<"#","E","X","T","-","X","-","I","-","F","R","A","M","E","-","S","T","R","E","A","M","-","I","N","F",":","B","A","N","D","W","I","D","T","H","=","1",",","U","R","I","=","\"","i","\"","\n">>

KindLines ==
    {UriLine, OtherUriLine, StreamInfLine, StreamInfBareLine, IFrameStreamInfLine, ExtInfLine}

ScannerLines == {CommentLine, ECommentLine, BlankLine, SpaceLine, PaddedUriLine, M3uLine}

PushLine(line, options) ==
    /\ ~thrown
    /\ lastCall # "done"
    /\ Len(history) < MaxLines
    /\ lastCall = "pushString" => options = lastOptions
    /\ pushString(line, options)
    /\ history' = Append(history, line)
    /\ UNCHANGED <<tape, start, pos>>

DoneLines ==
    /\ ~thrown
    /\ lastCall # "done"
    /\ done
    /\ UNCHANGED <<history, tape, start, pos>>

ParseLines(lines, options) ==
    /\ ~thrown
    /\ parseFullPlaylistString(Flatten(lines), options)
    /\ history' = lines
    /\ UNCHANGED <<tape, start, pos>>

Next ==
    \/ \E line \in library, options \in ParseOptionSets : PushLine(line, options)
    \/ DoneLines
    \/ /\ lastCall = "constructor"
       /\ kind = "full"
       /\ \E lines \in SeqsUpTo(library, MaxLines), options \in ParseOptionSets :
             ParseLines(lines, options)

Init ==
    InitWith({"full", "progressive"}, {defaultParserOptions},
             {SegmentLines, VariableLines, ScannerLines, ProcessorLines, VariantLines,
              KindLines},
             {<<>>})

Spec == Init /\ [][Next]_vars

\* ------------------------------------------------------------------------
\* Segment runs: the line-level steps on the tags that build a segment
\* ------------------------------------------------------------------------

SegmentLibraries ==
    {PerSegmentLines, KeyLines, MapLines, BitrateLines, PdtLines, PartLines, SkipLines}

InitSegments ==
    InitWith({"full", "progressive"}, {defaultParserOptions}, SegmentLibraries, {<<>>})

SpecSegments == InitSegments /\ [][Next]_vars

\* ------------------------------------------------------------------------
\* Define runs: the line-level steps on EXT-X-DEFINE lines, for a playlist
\* loaded from a multivariant playlist that hands on its variables
\* ------------------------------------------------------------------------

\* The variables of the multivariant playlist: I is in name and import, J in
\* import and queryParam, K in queryParam only, E in name with the empty
\* string as its value.
baseDefineOfParent ==
    [kind |-> "define",
     name |-> <<[k |-> <<"I">>, v |-> Str(<<"n">>)], [k |-> <<"E">>, v |-> Str(<<>>)]>>,
     import |-> <<[k |-> <<"I">>, v |-> Str(<<"i">>)], [k |-> <<"J">>, v |-> Str(<<"i">>)]>>,
     queryParam |-> <<[k |-> <<"J">>, v |-> Str(<<"q">>)], [k |-> <<"K">>, v |-> Str(<<"q">>)]>>]

importingParseOptions ==
    [baseUrl |-> baseUrlOfPlaylist, baseDefine |-> baseDefineOfParent, baseTime |-> Undefined]

DefineParseOptionSets == {importingParseOptions, laterParseOptions}

ImportILine == <<"#","E","X","T","-","X","-","D","E","F","I","N","E",":","I","M","P","O","R","T","=","\"","I","\"","\n">>
ImportJLine == <<"#","E","X","T","-","X","-","D","E","F","I","N","E",":","I","M","P","O","R","T","=","\"","J","\"","\n">>
ImportKLine == <<"#","E","X","T","-","X","-","D","E","F","I","N","E",":","I","M","P","O","R","T","=","\"","K","\"","\n">>
ImportZLine == <<"#","E","X","T","-","X","-","D","E","F","I","N","E",":","I","M","P","O","R","T","=","\"","Z","\"","\n">>
ImportELine == <<"#","E","X","T","-","X","-","D","E","F","I","N","E",":","I","M","P","O","R","T","=","\"","E","\"","\n">>
ImportedUriLine == <<"{","$","J","}","\n">>

ImportLines ==
    {ImportILine, ImportJLine, ImportKLine, ImportZLine, ImportELine, ImportedUriLine}

QueryTLine == <<"#","E","X","T","-","X","-","D","E","F","I","N","E",":","Q","U","E","R","Y","P","A","R","A","M","=","\"","t","\"","\n">>
QueryULine == <<"#","E","X","T","-","X","-","D","E","F","I","N","E",":","Q","U","E","R","Y","P","A","R","A","M","=","\"","u","\"","\n">>

QueryLines == {DefineLine, QueryTLine, QueryULine, VariableUriLine, KeyVariablesLine}

NextDefine ==
    \/ \E line \in library, options \in DefineParseOptionSets : PushLine(line, options)
    \/ DoneLines
    \/ /\ lastCall = "constructor"
       /\ kind = "full"
       /\ \E lines \in SeqsUpTo(library, MaxLines), options \in DefineParseOptionSets :
             ParseLines(lines, options)

InitDefine ==
    InitWith({"full", "progressive"}, {defaultParserOptions}, {ImportLines, QueryLines}, {<<>>})

SpecDefine == InitDefine /\ [][NextDefine]_vars

\* ------------------------------------------------------------------------
\* Dispatch runs: the line-level steps, for parsers constructed with ignoreTags,
\* customTagMap, transformTagValue and transformTagAttributes, on lines of
\* every route of tagInfoCallback.
\* ------------------------------------------------------------------------

EXT_C == <<"E","X","T","-","C">>
EXT_U == <<"E","X","T","-","U">>

ExtInfBareLine == <<"#","E","X","T","I","N","F","\n">>
CustomLine == <<"#","E","X","T","-","C",":","1","\n">>
UnknownLine == <<"#","E","X","T","-","U","\n">>

DispatchPieces ==
    {[text |-> M3uLine, tagKey |-> EXTM3U],
     [text |-> ExtInfLine, tagKey |-> EXTINF],
     [text |-> ExtInfBareLine, tagKey |-> EXTINF],
     [text |-> StreamInfLine, tagKey |-> EXT_X_STREAM_INF],
     [text |-> CustomLine, tagKey |-> EXT_C],
     [text |-> UnknownLine, tagKey |-> EXT_U]}

DispatchLines == {piece.text : piece \in DispatchPieces} \cup {UriLine}

\* A caller that ignores built-in tags and a tag it has a handler for.
ignoringParserOptions ==
    [ignoreTags |-> {EXTM3U, EXTINF, EXT_X_STREAM_INF, EXT_C}, customTagMap |-> {EXT_C},
     transformTagValue |-> "default", transformTagAttributes |-> "default"]

\* A caller with handlers for a tag of its own and for built-in tags.
customParserOptions ==
    [ignoreTags |-> {}, customTagMap |-> {EXT_C, EXTM3U, EXTINF, EXT_X_STREAM_INF},
     transformTagValue |-> "default", transformTagAttributes |-> "default"]

\* A caller whose transformTagValue returns null and whose
\* transformTagAttributes returns an empty object.
transformingParserOptions ==
    [ignoreTags |-> {}, customTagMap |-> {EXT_C},
     transformTagValue |-> "null", transformTagAttributes |-> "empty"]

DispatchParserOptions ==
    {defaultParserOptions, ignoringParserOptions, customParserOptions,
     transformingParserOptions}

InitDispatch ==
    InitWith({"full", "progressive"}, DispatchParserOptions, {DispatchLines}, {<<>>})

SpecDispatch == InitDispatch /\ [][Next]_vars

\* ------------------------------------------------------------------------
\* Character-level runs: the text of a tape is pushed in chunks of any length,
\* or given piece by piece to a full parser; an instance is used again after
\* it has completed a parse.
\* ------------------------------------------------------------------------

MaxTapeLines == 2

MaxChunkLen == 3

MaxParses == 2

TapeLines == {<<"#","E","X","T","I","N","F",":","5",",","\n">>, <<"a","\n">>, <<"#","E","X","T","-","X","-","M","A","P",":","U","R","I","=","\"","a",",","b","\"","\n">>, <<"#","c","\n">>, <<"#","E","X","T","M","3","U","\n">>}

Tapes == {Flatten(ls) : ls \in SeqsUpTo(TapeLines, MaxTapeLines)} \ {<<>>}

\* The text given to the parser in the current (or the last completed) parse.
ParsedText == SubSeq(tape, start + 1, pos)

PushNext(n, options) ==
    /\ ~thrown
    /\ completed < MaxParses
    /\ pos + n <= Len(tape)
    /\ lastCall = "pushString" => options = lastOptions
    /\ pushString(SubSeq(tape, pos + 1, pos + n), options)
    /\ start' = IF lastCall = "pushString" THEN start ELSE pos
    /\ pos' = pos + n
    /\ UNCHANGED <<history, tape>>

Done ==
    /\ ~thrown
    /\ completed < MaxParses
    /\ done
    /\ start' = IF lastCall = "pushString" THEN start ELSE pos
    /\ UNCHANGED <<history, tape, pos>>

FullNext(n, options) ==
    /\ ~thrown
    /\ completed < MaxParses
    /\ pos + n <= Len(tape)
    /\ parseFullPlaylistString(SubSeq(tape, pos + 1, pos + n), options)
    /\ start' = pos
    /\ pos' = pos + n
    /\ UNCHANGED <<history, tape>>

NextChunk ==
    \/ \E n \in 0..MaxChunkLen, options \in ParseOptionSets : PushNext(n, options)
    \/ Done
    \/ \E n \in 0..Len(tape), options \in ParseOptionSets : FullNext(n, options)

InitChunk == InitWith({"full", "progressive"}, {defaultParserOptions}, {TapeLines}, Tapes)

SpecChunk == InitChunk /\ [][NextChunk]_vars

\* ------------------------------------------------------------------------
\* Options runs: a progressive parser is given one text in chunks that end in
\* the middle or at the end of a line, each push with parse options of its
\* own.  The text may lack its last newline.
\* ------------------------------------------------------------------------

OptionLines == {UriLine, ExtInfLine, MapLine, ImportILine}

OptionTapes ==
    LET texts == {Flatten(ls) : ls \in SeqsUpTo(OptionLines, MaxTapeLines)} \ {<<>>}
    IN  texts \cup {SubSeq(text, 1, Len(text) - 1) : text \in texts}

PushParseOptionSets == {playlistParseOptions, laterParseOptions, importingParseOptions}

\* Where a chunk may end: two characters into a line, at a newline, at the end
\* of the text.
Cuts ==
    {e \in 1..Len(tape) :
        \/ e = Len(tape)
        \/ tape[e] = NL
        \/ e = 2
        \/ e > 2 /\ tape[e - 2] = NL}

PushOptions(n, options) ==
    /\ ~thrown
    /\ lastCall # "done"
    /\ pos + n \in Cuts
    /\ pushString(SubSeq(tape, pos + 1, pos + n), options)
    /\ history' = Append(history, [end |-> pos + n, options |-> options])
    /\ pos' = pos + n
    /\ UNCHANGED <<tape, start>>

DoneOptions ==
    /\ ~thrown
    /\ lastCall # "done"
    /\ done
    /\ UNCHANGED <<history, tape, start, pos>>

NextOptions ==
    \/ \E n \in 1..(Len(tape) - pos), options \in PushParseOptionSets : PushOptions(n, options)
    \/ DoneOptions

InitOptions == InitWith({"progressive"}, {defaultParserOptions}, {OptionLines}, OptionTapes)

SpecOptions == InitOptions /\ [][NextOptions]_vars

\* ------------------------------------------------------------------------
\* Reuse runs: one instance is given line after line, parse after parse, by a
\* caller that goes on with the instance after an exception.  The history is
\* the lines the parser has read since it last cleaned; pos counts the lines
\* given since the construction.
\* ------------------------------------------------------------------------

ReuseLines ==
    {StreamInfLine, KeyLine, MapLine, BitrateLine, ExtInfLine, DefineLine, SkipLine, UriLine}

\* The instance has just been constructed or has just cleaned.
AtCleanState ==
    \/ lastCall = "constructor"
    \/ lastCall \in {"done", "parseFullPlaylistString"} /\ ~thrown

\* The lines of a text a full parse reads: the loop ends with the first line
\* whose processor throws.
RECURSIVE ReadOf(_)
ReadOf(lines) ==
    IF lines = <<>> THEN <<>>
    ELSE IF Head(lines) = SkipLine THEN <<SkipLine>>
    ELSE <<Head(lines)>> \o ReadOf(Tail(lines))

PushReuse(line) ==
    /\ completed < MaxParses
    /\ pos < MaxLines
    /\ pushString(line, playlistParseOptions)
    /\ history' = IF AtCleanState THEN <<line>> ELSE Append(history, line)
    /\ start' = IF AtCleanState THEN pos ELSE start
    /\ pos' = pos + 1
    /\ UNCHANGED tape

DoneReuse ==
    /\ completed < MaxParses
    /\ done
    /\ history' = IF AtCleanState THEN <<>> ELSE history
    /\ start' = IF AtCleanState THEN pos ELSE start
    /\ UNCHANGED <<tape, pos>>

ParseReuse(lines) ==
    /\ completed < MaxParses
    /\ parseFullPlaylistString(Flatten(lines), playlistParseOptions)
    /\ history' = (IF AtCleanState THEN <<>> ELSE history) \o ReadOf(lines)
    /\ start' = IF AtCleanState THEN pos ELSE start
    /\ pos' = pos + Len(lines)
    /\ UNCHANGED tape

NextReuse ==
    \/ \E line \in library : PushReuse(line)
    \/ DoneReuse
    \/ /\ kind = "full"
       /\ \E lines \in SeqsUpTo(library, MaxLines - pos) : ParseReuse(lines)

InitReuse == InitWith({"full", "progressive"}, {defaultParserOptions}, {ReuseLines}, {<<>>})

SpecReuse == InitReuse /\ [][NextReuse]_vars

\* ------------------------------------------------------------------------
\* Attribute-level runs: the body of one EXT-X-STREAM-INF line is built from
\* attributes, pushed one by one or given whole to a full parser; the line is
\* ended by its newline and a URI line, or by the end of the input.
\* ------------------------------------------------------------------------

MaxAttributes == 3

\* The attributes as they are written, each with the key and the value it
\* stands for.
AttributePieces ==
    {[text |-> <<"B","A","N","D","W","I","D","T","H","=","1">>, k |-> <<"B","A","N","D","W","I","D","T","H">>, v |-> <<"1">>],
     [text |-> <<"C","O","D","E","C","S","=","\"","a",",","b","\"">>, k |-> <<"C","O","D","E","C","S">>, v |-> <<"a",",","b">>],
     [text |-> <<"C","O","D","E","C","S","=","\"","a","=","b","\"">>, k |-> <<"C","O","D","E","C","S">>, v |-> <<"a","=","b">>],
     [text |-> <<"C","O","D","E","C","S","=","\"","a","b","\"">>, k |-> <<"C","O","D","E","C","S">>, v |-> <<"a","b">>],
     [text |-> <<"A","U","D","I","O","=","\"","B","=","1",",","A","=","2","\"">>, k |-> <<"A","U","D","I","O">>, v |-> <<"B","=","1",",","A","=","2">>]}

AttributeTexts == {a.text : a \in AttributePieces}

StreamInfHead == <<"#","E","X","T","-","X","-","S","T","R","E","A","M","-","I","N","F",":">>

UriAfterTag == <<"\n","a","\n">>

\* The line has not been ended yet.
LineOpen == IF history = <<>> THEN TRUE ELSE history[Len(history)] # UriAfterTag

\* The text of a line's start with the given attributes, without its newline.
RECURSIVE AttributeLine(_)
AttributeLine(texts) ==
    CASE texts = <<>> -> <<>>
      [] Len(texts) = 1 -> StreamInfHead \o texts[1]
      [] OTHER -> AttributeLine(SubSeq(texts, 1, Len(texts) - 1)) \o <<",">> \o texts[Len(texts)]

PushAttribute(text, options) ==
    /\ ~thrown
    /\ lastCall # "done"
    /\ Len(history) < MaxAttributes
    /\ LineOpen
    /\ lastCall = "pushString" => options = lastOptions
    /\ pushString((IF history = <<>> THEN StreamInfHead ELSE <<",">>) \o text, options)
    /\ history' = Append(history, text)
    /\ UNCHANGED <<tape, start, pos>>

EndLine ==
    /\ ~thrown
    /\ lastCall = "pushString"
    /\ LineOpen
    /\ pushString(UriAfterTag, lastOptions)
    /\ history' = Append(history, UriAfterTag)
    /\ UNCHANGED <<tape, start, pos>>

ParseAttributes(texts, options) ==
    /\ ~thrown
    /\ parseFullPlaylistString(AttributeLine(texts), options)
    /\ history' = texts
    /\ UNCHANGED <<tape, start, pos>>

NextAttributes ==
    \/ \E text \in library, options \in ParseOptionSets : PushAttribute(text, options)
    \/ EndLine
    \/ DoneLines
    \/ /\ lastCall = "constructor"
       /\ kind = "full"
       /\ \E texts \in SeqsUpTo(library, MaxAttributes) \ {<<>>}, options \in ParseOptionSets :
             ParseAttributes(texts, options)

InitAttributes ==
    InitWith({"full", "progressive"}, {defaultParserOptions}, {AttributeTexts}, {<<>>})

SpecAttributes == InitAttributes /\ [][NextAttributes]_vars

\* ------------------------------------------------------------------------
\* Properties
\* ------------------------------------------------------------------------

\* A parse has just returned a playlist.
Returned == lastCall \in {"done", "parseFullPlaylistString"} /\ ~thrown

SegmentsOf(ref) == objects[ref].segments

\* C1. Chunking equivalence: the playlist done() returns after the text was
\* pushed in chunks, each with the same parse options, is the playlist a full
\* parse of the whole text returns.
C1_ChunkingEquivalence ==
    (lastCall = "done" /\ ~thrown /\ completed = 1) =>
        objects[returned] = parseFresh(parserOptions, lastOptions, ParsedText).playlist

\* The text of an EXT-X-MAP line with a quoted comma and of a URI line has been
\* pushed in chunks of at most MaxChunkLen characters, and done() has returned
\* the segment with its map.
C1_Witness ==
    /\ lastCall = "done" /\ ~thrown /\ completed = 1
    /\ ParsedText = <<"#","E","X","T","-","X","-","M","A","P",":","U","R","I","=","\"","a",",","b","\"","\n","a","\n">>
    /\ Len(SegmentsOf(returned)) = 1
    /\ SegmentsOf(returned)[1].map.uri = <<"a",",","b">>

\* C2. The parser never throws for input problems: no call ends with an
\* exception.
C2_NeverThrows == ~thrown

\* C3. Media-sequence monotonicity: in the working playlist and in every
\* returned playlist each segment's media sequence is one more than that of the
\* segment before it.
C3_MediaSequenceMonotonicity ==
    \A r \in Refs : \A i \in 2..Len(SegmentsOf(r)) :
        SegmentsOf(r)[i].mediaSequence = SegmentsOf(r)[i - 1].mediaSequence + 1

\* A playlist with an EXT-X-MEDIA-SEQUENCE tag between its two segments has
\* been returned.
C3_Witness ==
    /\ Returned
    /\ history = <<UriLine, MediaSequenceLine, UriLine>>
    /\ Len(SegmentsOf(returned)) = 2
    /\ objects[returned].mediaSequence = 7

\* C4. Time continuity: each segment starts where the segment before it ends,
\* and ends at its start time plus its duration.
C4_TimeContinuity ==
    \A r \in Refs :
        /\ \A i \in 2..Len(SegmentsOf(r)) :
              SegmentsOf(r)[i].startTime = SegmentsOf(r)[i - 1].endTime
        /\ \A i \in 1..Len(SegmentsOf(r)) :
              SegmentsOf(r)[i].endTime = SegmentsOf(r)[i].startTime + SegmentsOf(r)[i].duration

\* The working playlist of a progressive parser holds a segment of duration 5
\* that starts at the base time 2 and a second segment that starts at its end.
C4_Witness ==
    /\ lastCall = "pushString" /\ ~thrown
    /\ history = <<ExtInfLine, UriLine, UriLine>>
    /\ Len(SegmentsOf(parsedPlaylist)) = 2
    /\ SegmentsOf(parsedPlaylist)[1].endTime = 7
    /\ SegmentsOf(parsedPlaylist)[2].startTime = 7

\* C5. Discontinuity counter: from one segment to the next the discontinuity
\* sequence grows by 0 or 1, and by 1 exactly when the segment is a
\* discontinuity.
C5_DiscontinuityCounter ==
    \A r \in Refs : \A i \in 2..Len(SegmentsOf(r)) :
        LET d == SegmentsOf(r)[i].discontinuitySequence
                     - SegmentsOf(r)[i - 1].discontinuitySequence
        IN  /\ d \in {0, 1}
            /\ d = 1 <=> SegmentsOf(r)[i].isDiscontinuity

\* Two EXT-X-DISCONTINUITY tags before the second URI line: the returned
\* playlist counts one discontinuity.
C5_Witness ==
    /\ Returned
    /\ history = <<UriLine, DiscontinuityLine, DiscontinuityLine, UriLine>>
    /\ Len(SegmentsOf(returned)) = 2
    /\ SegmentsOf(returned)[2].isDiscontinuity
    /\ SegmentsOf(returned)[2].discontinuitySequence = 1

\* C6. Clean-after-parse: when a parse has returned, the parser works on a new
\* default playlist with a default shared state, the playlist returned by an
\* instance that parsed before is the one a new instance returns, and no step
\* changes the playlist the caller was given last.
C6_CleanAfterParse ==
    /\ [](Returned =>
            /\ parsedPlaylist # returned
            /\ objects[parsedPlaylist] = createDefaultParsedPlaylist
            /\ sharedState = createDefaultSharedState
            /\ objects[returned] = parseFresh(parserOptions, lastOptions, ParsedText).playlist)
    /\ [][returned # 0 => objects'[returned] = objects[returned]]_vars

\* A full parser has returned a playlist with a segment for its second text
\* while the playlist of its first text, with a segment too, is still alive.
C6_Witness ==
    /\ kind = "full" /\ Returned /\ completed = 2
    /\ SegmentsOf(returned) # <<>>
    /\ \E r \in Refs : NewRef(r) = returned /\ SegmentsOf(r) # <<>>

\* C7. Trailing newline idempotence: the full parse of a text returns the
\* playlist, and gives the warnings, of the full parse of the text with one
\* more newline at its end.
C7_TrailingNewline ==
    (lastCall = "parseFullPlaylistString" /\ ~thrown) =>
        /\ objects[returned] =
              parseFresh(parserOptions, lastOptions, ParsedText \o <<NL>>).playlist
        /\ warned = parseFresh(parserOptions, lastOptions, ParsedText \o <<NL>>).warned

\* A text whose last line, a URI, has no newline has been parsed.
C7_Witness ==
    /\ lastCall = "parseFullPlaylistString" /\ ~thrown
    /\ ParsedText = <<"#","E","X","T","I","N","F",":","5",",","\n","a">>
    /\ Len(SegmentsOf(returned)) = 1

\* Whether a line before line j of the text defines the variable X.
DefinedBefore(j) == \E i \in 1..(j - 1) : history[i] = DefineLine

\* The positions of a line in the text, in order.
PositionsOf(line) ==
    LET Is(i) == history[i] = line
    IN  SelectSeq([i \in 1..Len(history) |-> i], Is)

\* The warnings of the last call about a variable without a value.
MissingVariableWarnings ==
    LET Is(w) == w.type \in {"missingVariableForUri", "missingVariableForAttribute"}
    IN  Len(SelectSeq(warned, Is))

\* C8. Variable substitution, as the code does it: in a URI line and in the
\* attribute values of a tag that come after the EXT-X-DEFINE of X, {$X} is
\* replaced with the value of X, the undefined {$Y} stays as it is and gives one
\* warning; before the first EXT-X-DEFINE the text stays as it is and no
\* warning is given.
C8_SubstitutionAfterDefine ==
    library = VariableLines =>
        /\ Returned =>
              /\ Len(SegmentsOf(returned)) = Len(PositionsOf(VariableUriLine))
              /\ \A k \in 1..Len(SegmentsOf(returned)) :
                    SegmentsOf(returned)[k].uri =
                        IF DefinedBefore(PositionsOf(VariableUriLine)[k])
                        THEN <<"v","{","$","Y","}">> ELSE <<"{","$","X","}","{","$","Y","}">>
        /\ lastCall = "parseFullPlaylistString" /\ ~thrown =>
              MissingVariableWarnings =
                  Cardinality({j \in 1..Len(history) :
                      /\ history[j] \in {VariableUriLine, VariableMapLine}
                      /\ DefinedBefore(j)})
        /\ lastCall = "pushString" /\ ~thrown =>
              /\ MissingVariableWarnings =
                    IF /\ history[Len(history)] \in {VariableUriLine, VariableMapLine}
                       /\ DefinedBefore(Len(history))
                    THEN 1 ELSE 0
              /\ history[Len(history)] = VariableMapLine =>
                    sharedState.currentMap.uri =
                        IF DefinedBefore(Len(history)) THEN <<"v","{","$","Y","}">> ELSE <<"{","$","X","}","{","$","Y","}">>

\* A playlist with the URI line before and after the EXT-X-DEFINE has been
\* returned: the first segment has the text as written, the second the value.
C8_Witness ==
    /\ Returned
    /\ history = <<VariableUriLine, DefineLine, VariableMapLine, VariableUriLine>>
    /\ SegmentsOf(returned)[1].uri = <<"{","$","X","}","{","$","Y","}">>
    /\ SegmentsOf(returned)[2].uri = <<"v","{","$","Y","}">>
    /\ SegmentsOf(returned)[2].map.uri = <<"v","{","$","Y","}">>

\* C8 as stated: in a returned playlist that defines X every {$X} of a URI
\* line is replaced, and every undefined {$Y} of a full parse gives one warning.
C8_SubstitutionEverywhere ==
    (library = VariableLines /\ Returned /\ \E i \in 1..Len(history) : history[i] = DefineLine) =>
        /\ \A k \in 1..Len(SegmentsOf(returned)) : SegmentsOf(returned)[k].uri = <<"v","{","$","Y","}">>
        /\ lastCall = "parseFullPlaylistString" =>
              MissingVariableWarnings =
                  Cardinality({j \in 1..Len(history) :
                      history[j] \in {VariableUriLine, VariableMapLine}})

\* The position of the first EXT-X-STREAM-INF line of the text, one past the
\* text's end when it has none.
FirstStreamInf ==
    IF \E i \in 1..Len(history) : history[i] = StreamInfLine
    THEN CHOOSE i \in 1..Len(history) :
            history[i] = StreamInfLine /\ \A j \in 1..(i - 1) : history[j] # StreamInfLine
    ELSE Len(history) + 1

UriLinesIn(from, to) == Cardinality({i \in from..to : history[i] = UriLine})

\* C9. As the code does it: the URI lines before the first EXT-X-STREAM-INF
\* tag are the segments and the URI lines after it the variant streams, so the
\* two are both non-empty only in a playlist with a URI line before its first
\* EXT-X-STREAM-INF tag and one after it.
C9_SegmentsThenVariants ==
    (library = SegmentLines /\ Returned) =>
        /\ Len(SegmentsOf(returned)) = UriLinesIn(1, FirstStreamInf - 1)
        /\ Len(objects[returned].variantStreams) = UriLinesIn(FirstStreamInf + 1, Len(history))
        /\ UriLinesIn(1, FirstStreamInf - 1) = 0 =>
              ~(SegmentsOf(returned) # <<>> /\ objects[returned].variantStreams # <<>>)

\* A playlist whose URI lines all follow its EXT-X-STREAM-INF tag has been
\* returned with two variant streams and no segment.
C9_Witness ==
    /\ Returned
    /\ history = <<StreamInfLine, UriLine, StreamInfLine, UriLine>>
    /\ SegmentsOf(returned) = <<>>
    /\ Len(objects[returned].variantStreams) = 2

\* C9 as stated: a returned playlist never has both segments and variant
\* streams.
C9_NeverBoth ==
    Returned => ~(SegmentsOf(returned) # <<>> /\ objects[returned].variantStreams # <<>>)

\* C10. Push after done starts a new parse: the playlist the second done()
\* returns is the playlist of a parse of the later chunks by a new instance.
C10_PushAfterDone ==
    (kind = "progressive" /\ lastCall = "done" /\ ~thrown /\ completed >= 2) =>
        objects[returned] = parseFresh(parserOptions, lastOptions, ParsedText).playlist

\* The first done() flushed a line without a newline, and the second done()
\* has returned a playlist with a segment for the chunks pushed after it.
C10_Witness ==
    /\ kind = "progressive" /\ lastCall = "done" /\ ~thrown /\ completed = 2
    /\ start > 0
    /\ tape[start] # NL
    /\ SegmentsOf(returned) # <<>>

\* C11. End-of-input flush: when the text given to a parse ends inside a line,
\* the newline that parseFullPlaylistString or done() gives the scanner makes
\* it emit that line, and the returned playlist is the playlist of the text
\* with the newline written at its end.
C11_EndOfInputFlush ==
    (Returned /\ ParsedText # <<>> /\ ParsedText[Len(ParsedText)] # NL) =>
        objects[returned] =
            parseFresh(parserOptions, lastOptions, Append(ParsedText, NL)).playlist

\* The chunks of an EXTM3U tag line without its newline have been pushed, and
\* done() has returned a playlist with the tag's flag set.
C11_Witness ==
    /\ lastCall = "done" /\ ~thrown
    /\ ParsedText = <<"#","E","X","T","M","3","U">>
    /\ objects[returned].m3u

\* The attributes of the line, in the order they were written.
AttributesWritten ==
    LET IsAttribute(text) == text # UriAfterTag
    IN  SelectSeq(history, IsAttribute)

PieceOf(text) == CHOOSE a \in AttributePieces : a.text = text

\* The value written last for key k.
ValueWritten(k) ==
    LET last == CHOOSE i \in 1..Len(AttributesWritten) :
                    /\ PieceOf(AttributesWritten[i]).k = k
                    /\ \A j \in (i + 1)..Len(AttributesWritten) :
                          PieceOf(AttributesWritten[j]).k # k
    IN  PieceOf(AttributesWritten[last]).v

\* C12. Quoted commas: whenever the scanner has recognized the line, the
\* attributes it hands to the parser have exactly the keys that were written,
\* whatever commas and equals signs stand inside the quoted values, and each
\* key has the value written last for it, without its quotes and with its
\* inner commas; the CODECS value of a variant is split at those commas only
\* by the EXT-X-STREAM-INF processor.
C12_QuotedCommas ==
    (library = AttributeTexts /\ ~thrown /\ called # <<>>) =>
        LET attrs == called[1].tagAttributes
            keys == {PieceOf(AttributesWritten[i]).k : i \in 1..Len(AttributesWritten)}
            variants == objects[parsedPlaylist].variantStreams
        IN  /\ called[1].fn = "debugCallback"
            /\ called[1].tagValue = Null
            /\ {attrs[i].k : i \in 1..Len(attrs)} = keys
            /\ Len(attrs) = Cardinality(keys)
            /\ \A i \in 1..Len(attrs) : attrs[i].v = ValueWritten(attrs[i].k)
            /\ (lastCall = "pushString" /\ <<"B","A","N","D","W","I","D","T","H">> \in keys /\ <<"C","O","D","E","C","S">> \in keys) =>
                  /\ Len(variants) = 1
                  /\ variants[1].codecs = Split(ValueWritten(<<"C","O","D","E","C","S">>), ",")

\* A line with a comma and an equals sign inside quoted values has been
\* recognized: three attributes, and a variant with the two codecs.
C12_Witness ==
    /\ lastCall = "pushString" /\ ~thrown
    /\ history = <<<<"B","A","N","D","W","I","D","T","H","=","1">>, <<"C","O","D","E","C","S","=","\"","a",",","b","\"">>, <<"A","U","D","I","O","=","\"","B","=","1",",","A","=","2","\"">>, UriAfterTag>>
    /\ Len(called[1].tagAttributes) = 3
    /\ objects[parsedPlaylist].variantStreams[1].codecs = <<<<"a">>, <<"b">>>>
    /\ objects[parsedPlaylist].variantStreams[1].audio = Str(<<"B","=","1",",","A","=","2">>)

\* The number of lines of the text that are of the given kind.
Count(IsKind(_)) == Cardinality({i \in 1..Len(history) : IsKind(history[i])})

\* The kinds of line, by the characters of the line.
IsBlankLine(line) == \A i \in 1..Len(line) : line[i] = NL \/ IsWhitespace(line[i])

IsHashLine(line) == line[1] = "#"

IsHashELine(line) == Len(line) >= 2 /\ line[1] = "#" /\ line[2] = "E"

IsExtTagLine(line) == Len(line) >= 4 /\ SubSeq(line, 1, 4) = <<"#","E","X","T">>

IsUriLine(line) == ~IsBlankLine(line) /\ ~IsHashLine(line)

\* The calls of debugCallback of the last call: the tags the scanner recognized.
TagsRecognized ==
    LET IsDebug(c) == c.fn = "debugCallback"
    IN  SelectSeq(called, IsDebug)

\* The playlist the last call worked on.
LastPlaylist == IF Returned THEN objects[returned] ELSE objects[parsedPlaylist]

LinesOfCall ==
    CASE lastCall = "pushString" -> <<history[Len(history)]>>
      [] lastCall = "parseFullPlaylistString" -> history
      [] OTHER -> <<>>

IsDispatchTagLine(line) == \E piece \in DispatchPieces : piece.text = line

TagKeyOf(line) == (CHOOSE piece \in DispatchPieces : piece.text = line).tagKey

\* The route of a tag: the first match in the order of section 4.3.
RouteOf(tagKey) ==
    IF tagKey \in parserOptions.ignoreTags THEN "ignore"
    ELSE IF tagKey \in {EXTM3U} THEN "empty"
    ELSE IF tagKey \in {EXTINF} THEN "value"
    ELSE IF tagKey \in {EXT_X_STREAM_INF} THEN "attributes"
    ELSE IF tagKey \in parserOptions.customTagMap THEN "custom"
    ELSE "unsupported"

\* The functions of the caller a route calls, with the tag they are called for.
CallsOfRoute(tagKey) ==
    <<<<"debugCallback", tagKey>>>> \o
    CASE RouteOf(tagKey) = "value" -> <<<<"transformTagValue", tagKey>>>>
      [] RouteOf(tagKey) = "attributes" -> <<<<"transformTagAttributes", tagKey>>>>
      [] RouteOf(tagKey) = "custom" -> <<<<"customTagProcessor", tagKey>>>>
      [] OTHER -> <<>>

\* The warning a route ends in.
WarningsOfRoute(tagKey) ==
    CASE RouteOf(tagKey) = "ignore" -> <<ignoreTagWarn(tagKey)>>
      [] RouteOf(tagKey) = "unsupported" -> <<unsupportedTagWarn(tagKey)>>
      [] OTHER -> <<>>

RECURSIVE ExpectedCalls(_)
ExpectedCalls(lines) ==
    IF lines = <<>> THEN <<>>
    ELSE (IF IsDispatchTagLine(Head(lines)) THEN CallsOfRoute(TagKeyOf(Head(lines))) ELSE <<>>)
         \o ExpectedCalls(Tail(lines))

RECURSIVE ExpectedRouteWarnings(_)
ExpectedRouteWarnings(lines) ==
    IF lines = <<>> THEN <<>>
    ELSE (IF IsDispatchTagLine(Head(lines)) THEN WarningsOfRoute(TagKeyOf(Head(lines))) ELSE <<>>)
         \o ExpectedRouteWarnings(Tail(lines))

CalledNames == [i \in 1..Len(called) |-> <<called[i].fn, called[i].tagKey>>]

RouteWarnings ==
    LET OfRoute(w) == w.type \in {"ignoreTag", "unsupportedTag"}
    IN  SelectSeq(warned, OfRoute)

\* C14. Dispatch priority: every tag the scanner recognizes takes one route, the
\* first match in the order ignoreTags, empty tags, value tags, attribute tags,
\* customTagMap, unsupported tag: the caller's functions are called, and the
\* ignored-tag and unsupported-tag warnings given, as that route says; an
\* ignored tag leaves no trace in the playlist, and a handler registered under
\* the name of a built-in tag is never called.
C14_DispatchPriority ==
    (library = DispatchLines /\ ~thrown) =>
        /\ CalledNames = ExpectedCalls(LinesOfCall)
        /\ RouteWarnings = ExpectedRouteWarnings(LinesOfCall)
        /\ EXTM3U \in parserOptions.ignoreTags => ~LastPlaylist.m3u
        /\ EXTINF \in parserOptions.ignoreTags =>
              \A i \in 1..Len(LastPlaylist.segments) : LastPlaylist.segments[i].duration = 0
        /\ EXT_X_STREAM_INF \in parserOptions.ignoreTags => LastPlaylist.variantStreams = <<>>
        /\ \A tagKey \in parserOptions.ignoreTags \cup emptyTagMap \cup tagValueMap
                              \cup tagAttributesMap :
              /\ Lookup(LastPlaylist.custom, tagKey) = Undefined
              /\ \A i \in 1..Len(called) :
                    called[i].tagKey = tagKey => called[i].fn # "customTagProcessor"

\* A caller with handlers for EXT-C and for three built-in tags has parsed a
\* text with these tags: the handler was called for EXT-C alone.
C14_Witness ==
    /\ Returned /\ lastCall = "parseFullPlaylistString"
    /\ parserOptions = customParserOptions
    /\ history = <<M3uLine, ExtInfLine, CustomLine, UriLine>>
    /\ CalledNames = <<<<"debugCallback", EXTM3U>>, <<"debugCallback", EXTINF>>,
                       <<"transformTagValue", EXTINF>>, <<"debugCallback", EXT_C>>,
                       <<"customTagProcessor", EXT_C>>>>
    /\ objects[returned].m3u
    /\ objects[returned].segments[1].duration = 5

\* The custom mapping the caller's handlers leave for the lines of a text.
RECURSIVE ExpectedCustom(_)
ExpectedCustom(lines) ==
    IF lines = <<>> THEN createDefaultParsedPlaylist.custom
    ELSE LET line == lines[Len(lines)]
             before == ExpectedCustom(SubSeq(lines, 1, Len(lines) - 1))
         IN  IF line = CustomLine /\ RouteOf(EXT_C) = "custom"
             THEN Store(before, EXT_C, [tagValue |-> Str(<<"1">>), tagAttributes |-> <<>>])
             ELSE before

\* C15. Frame of playlist.custom: the custom mapping of a playlist is what the
\* caller's custom-tag handlers stored for the custom tags of the text; tags
\* of the built-in maps and URI lines leave it alone, and for a parser without
\* customTagMap it is the default of a new playlist.
C15_CustomFrame ==
    (library = DispatchLines /\ ~thrown) =>
        /\ LastPlaylist.custom = ExpectedCustom(history)
        /\ parserOptions.customTagMap = {} =>
              \A r \in Refs : objects[r].custom = createDefaultParsedPlaylist.custom

\* A progressive parser with a handler for EXT-C has been given the custom tag
\* and then built-in tags and a URI: the mapping holds the custom tag alone.
C15_Witness ==
    /\ lastCall = "pushString" /\ ~thrown
    /\ parserOptions = transformingParserOptions
    /\ history = <<CustomLine, M3uLine, StreamInfLine, UriLine>>
    /\ objects[parsedPlaylist].m3u
    /\ Len(objects[parsedPlaylist].segments) = 1
    /\ objects[parsedPlaylist].custom =
          <<[k |-> EXT_C, v |-> [tagValue |-> Str(<<"1">>), tagAttributes |-> <<>>]]>>

\* C19. Null tag value: when a tag of the value-tag map is pushed and
\* transformTagValue returns null for it (the caller's function, or the default
\* on a line without a value), the call warns of the missing tag value and of
\* nothing else and leaves the playlist and the shared state as they were;
\* transformTagValue is called for tags of the value-tag map only and
\* transformTagAttributes for tags of the attribute-tag map only.
C19_NullTagValue ==
    [][library = DispatchLines =>
        /\ (lastCall' = "pushString" /\ ~thrown') =>
              LET line == history'[Len(history')]
                  returnsNull == \/ line = ExtInfBareLine
                                 \/ parserOptions.transformTagValue = "null"
              IN  (line \in {ExtInfLine, ExtInfBareLine} /\ RouteOf(EXTINF) = "value"
                   /\ returnsNull) =>
                      /\ warned' = <<missingTagValueWarn(EXTINF)>>
                      /\ objects' = objects
                      /\ sharedState' = gatherParseOptions(lastOptions', sharedState)
                      /\ parsedPlaylist' = parsedPlaylist
        /\ \A i \in 1..Len(called') :
              /\ called'[i].fn = "transformTagValue" => called'[i].tagKey \in tagValueMap
              /\ called'[i].fn = "transformTagAttributes" =>
                    called'[i].tagKey \in tagAttributesMap]_vars

\* An EXTINF line without a value has been pushed after one with a value: the
\* warning is given and the current segment keeps the duration it had.
C19_Witness ==
    /\ lastCall = "pushString" /\ ~thrown
    /\ parserOptions = defaultParserOptions
    /\ history = <<ExtInfLine, ExtInfBareLine>>
    /\ warned = <<missingTagValueWarn(EXTINF)>>
    /\ CalledNames = <<<<"debugCallback", EXTINF>>, <<"transformTagValue", EXTINF>>>>
    /\ sharedState.currentSegment.duration = 5

\* The position of the first URI line of the text.
FirstUriLine == CHOOSE f \in 1..Len(history) :
                    history[f] = UriLine /\ \A i \in 1..(f - 1) : history[i] # UriLine

\* C16. Numbering of the first segment: the first segment of a playlist has
\* the media sequence EXT-X-MEDIA-SEQUENCE gave the playlist before the
\* segment's URI line (0 without the tag) and the discontinuity sequence of the
\* playlist, whether or not EXT-X-DISCONTINUITY precedes the segment.
C16_FirstSegmentNumbering ==
    (library = SegmentLines /\ ~thrown /\ LastPlaylist.segments # <<>>) =>
        /\ LastPlaylist.segments[1].mediaSequence =
              IF \E i \in 1..(FirstUriLine - 1) : history[i] = MediaSequenceLine
              THEN 7 ELSE 0
        /\ LastPlaylist.segments[1].discontinuitySequence = LastPlaylist.discontinuitySequence

\* The text '#EXT-X-MEDIA-SEQUENCE:7' and a URI line has been parsed: the
\* playlist has media sequence 7, its only segment media sequence 0.
C16_FirstSegmentAtZero ==
    /\ Returned /\ lastCall = "parseFullPlaylistString"
    /\ history = <<MediaSequenceLine, UriLine>>
    /\ objects[returned].mediaSequence = 7
    /\ Len(objects[returned].segments) = 1
    /\ objects[returned].segments[1].mediaSequence = 0

\* The sum of the durations of the segments before segment i.
RECURSIVE DurationBefore(_, _)
DurationBefore(segments, i) ==
    IF i = 1 THEN 0 ELSE DurationBefore(segments, i - 1) + segments[i - 1].duration

\* The base time the parse options of the last call ask for.
BaseTimeAsked == IF lastOptions.baseTime = Undefined THEN 0 ELSE lastOptions.baseTime.v

\* C17. baseTime offsets only the first segment: the first segment starts at
\* the base time of the parse options (0 when there is none), every later
\* segment starts at the end of the segment before it, so that the base time
\* is counted once in every start time.
C17_BaseTimeFirstSegmentOnly ==
    (library = SegmentLines /\ ~thrown) =>
        LET segments == LastPlaylist.segments
        IN  /\ segments # <<>> => segments[1].startTime = BaseTimeAsked
            /\ \A i \in 2..Len(segments) :
                  /\ segments[i].startTime = segments[i - 1].endTime
                  /\ segments[i].startTime = BaseTimeAsked + DurationBefore(segments, i)

\* A text of two segments of duration 5 has been parsed with base time 2:
\* the segments start at 2 and at 7.
C17_Witness ==
    /\ Returned /\ lastCall = "parseFullPlaylistString"
    /\ lastOptions = laterParseOptions
    /\ history = <<ExtInfLine, UriLine, ExtInfLine, UriLine>>
    /\ objects[returned].segments[1].startTime = 2
    /\ objects[returned].segments[2].startTime = 7
    /\ objects[returned].segments[2].endTime = 12

\* The lines of ProcessorLines that lack a required attribute, with the
\* warnings of the attributes they lack, in the order of requiredAttributes.
LacksRequired(line) == line \in {VariableKeyLine, PartialPartLine}

MissingOf(line) ==
    CASE line = VariableKeyLine -> <<missingRequiredAttributeWarn(EXT_X_KEY, <<"M","E","T","H","O","D">>)>>
      [] line = PartialPartLine -> <<missingRequiredAttributeWarn(EXT_X_PART, <<"U","R","I">>),
                                     missingRequiredAttributeWarn(EXT_X_PART, <<"D","U","R","A","T","I","O","N">>)>>
      [] OTHER -> <<>>

RECURSIVE MissingOfAll(_)
MissingOfAll(lines) ==
    IF lines = <<>> THEN <<>> ELSE MissingOf(Head(lines)) \o MissingOfAll(Tail(lines))

\* C18. Missing required attribute: a pushed attribute tag that lacks
\* required attributes gives one warning per attribute it lacks and nothing
\* else, and leaves every playlist object and the shared state as they were;
\* the lines after it are processed as ever: the playlist a parse returns is
\* the playlist of the text without these tags, and its missing-attribute
\* warnings are those of these tags, in order.
C18_MissingRequiredAttribute ==
    /\ [][(library = ProcessorLines /\ lastCall' = "pushString" /\ ~thrown'
            /\ LacksRequired(history'[Len(history')])) =>
              /\ warned' = MissingOf(history'[Len(history')])
              /\ objects' = objects
              /\ parsedPlaylist' = parsedPlaylist
              /\ sharedState' = gatherParseOptions(lastOptions', sharedState)]_vars
    /\ []((library = ProcessorLines /\ Returned) =>
            LET Complete(line) == ~LacksRequired(line)
                IsMissing(w) == w.type = "missingRequiredAttribute"
            IN  /\ objects[returned] =
                      parseFresh(parserOptions, lastOptions,
                                 Flatten(SelectSeq(history, Complete))).playlist
                /\ lastCall = "parseFullPlaylistString" =>
                      SelectSeq(warned, IsMissing) = MissingOfAll(history))

\* An EXT-X-PART tag with GAP alone has been pushed after an EXT-X-KEY tag:
\* two warnings, and the key of the tag before is still the current one.
C18_Witness ==
    /\ lastCall = "pushString" /\ ~thrown
    /\ history = <<KeyVariablesLine, PartialPartLine>>
    /\ warned = <<missingRequiredAttributeWarn(EXT_X_PART, <<"U","R","I">>),
                  missingRequiredAttributeWarn(EXT_X_PART, <<"D","U","R","A","T","I","O","N">>)>>
    /\ sharedState.currentEncryption # Undefined
    /\ sharedState.currentSegment = createDefaultSegment

\* C20. Ordering inside an attribute-tag processor: when an EXT-X-KEY tag
\* with all required attributes is pushed after an EXT-X-DEFINE tag, the key
\* it stores holds the substituted value of every attribute and each undefined
\* variable is warned of; pushed before any EXT-X-DEFINE tag it stores the
\* values as written and no variable is warned of; a tag that lacks a required
\* attribute stores nothing and no variable of it is warned of.
C20_ProcessorOrdering ==
    [][(library = ProcessorLines /\ lastCall' = "pushString" /\ ~thrown') =>
          LET line == history'[Len(history')]
              defined == \E i \in 1..Len(history) : history[i] = DefineLine
              IsVariable(w) == w.type = "missingVariableForAttribute"
              key == sharedState'.currentEncryption
          IN  /\ sharedState.hasVariablesForSubstitution = defined
              /\ (line = KeyVariablesLine /\ defined) =>
                    /\ key.method = Str(<<"N","O","N","E">>)
                    /\ key.uri = Str(<<"v">>)
                    /\ key.iv = Str(<<"{","$","Y","}">>)
                    /\ SelectSeq(warned', IsVariable) =
                          <<missingRequiredVariableForAttributeValueSubstitutionWarn(
                                EXT_X_KEY, <<"I","V">>, <<"Y">>)>>
              /\ (line = KeyVariablesLine /\ ~defined) =>
                    /\ key.method = Str(<<"N","O","N","E">>)
                    /\ key.uri = Str(<<"{","$","X","}">>)
                    /\ key.iv = Str(<<"{","$","Y","}">>)
                    /\ SelectSeq(warned', IsVariable) = <<>>
              /\ LacksRequired(line) =>
                    /\ key = sharedState.currentEncryption
                    /\ SelectSeq(warned', IsVariable) = <<>>]_vars

\* An EXT-X-KEY tag with two variables has been pushed after the definition
\* of one of them: the key holds the value of the defined one.
C20_Witness ==
    /\ lastCall = "pushString" /\ ~thrown
    /\ history = <<DefineLine, KeyVariablesLine>>
    /\ sharedState.hasVariablesForSubstitution
    /\ sharedState.currentEncryption.uri = Str(<<"v">>)
    /\ sharedState.currentEncryption.iv = Str(<<"{","$","Y","}">>)
    /\ \E i \in 1..Len(warned) : warned[i].type = "missingVariableForAttribute"

\* The warnings of the last call that tell of a URI line that was not resolved.
UnresolvedUriWarnings ==
    LET IsUnresolved(w) == w.type = "failedToResolveUri"
    IN  SelectSeq(warned, IsUnresolved)

\* The URIs of a playlist's segments and variant streams.
UrisOf(playlist) ==
    {[uri |-> playlist.segments[i].uri, resolvedUri |-> playlist.segments[i].resolvedUri] :
        i \in 1..Len(playlist.segments)}
    \cup {[uri |-> playlist.variantStreams[i].uri,
            resolvedUri |-> playlist.variantStreams[i].resolvedUri] :
              i \in 1..Len(playlist.variantStreams)}

\* C21. URI resolution fallback: with an empty baseUrl every URI line gives
\* one failed-to-resolve warning that names the URI after substitution, the
\* segment or variant of the line is appended all the same, and its resolvedUri
\* is its uri; with the playlist's URL as baseUrl there is no such warning and
\* the resolvedUri is the URI resolved against it.
C21_UriResolutionFallback ==
    (library \in {SegmentLines, VariableLines} /\ ~thrown) =>
        /\ Len(LastPlaylist.segments) + Len(LastPlaylist.variantStreams) = Count(IsUriLine)
        /\ \A item \in UrisOf(LastPlaylist) :
              IF lastOptions.baseUrl = <<>>
              THEN item.resolvedUri = item.uri
              ELSE item.resolvedUri = <<"h","t","t","p",":","/","/","h","/","v","/">> \o item.uri
        /\ Len(UnresolvedUriWarnings) =
              IF lastOptions.baseUrl = <<>>
              THEN Cardinality({i \in 1..Len(LinesOfCall) : IsUriLine(LinesOfCall[i])})
              ELSE 0
        /\ \A i \in 1..Len(UnresolvedUriWarnings) :
              \E item \in UrisOf(LastPlaylist) :
                  UnresolvedUriWarnings[i] = failedToResolveUri(item.uri, <<>>)

\* A URI line with a defined and an undefined variable has been parsed without
\* baseUrl: the segment is there, its resolvedUri is the substituted URI.
C21_Witness ==
    /\ Returned /\ lastCall = "parseFullPlaylistString"
    /\ lastOptions = laterParseOptions
    /\ history = <<DefineLine, VariableUriLine>>
    /\ Len(objects[returned].segments) = 1
    /\ objects[returned].segments[1].uri = <<"v","{","$","Y","}">>
    /\ objects[returned].segments[1].resolvedUri = <<"v","{","$","Y","}">>
    /\ UnresolvedUriWarnings = <<failedToResolveUri(<<"v","{","$","Y","}">>, <<>>)>>

\* The greatest member of a non-empty set of numbers.
Greatest(S) == CHOOSE m \in S : \A x \in S : x <= m

\* The position of the last URI line before line i, 0 when there is none.
UriLineBefore(i) == Greatest({0} \cup {j \in 1..(i - 1) : IsUriLine(history[j])})

\* The positions of the lines of the given kind, in order.
PositionsOfKind(IsKind(_)) ==
    LET Holds(i) == IsKind(history[i])
    IN  SelectSeq([i \in 1..Len(history) |-> i], Holds)

\* EXT-X-STREAM-INF lines with the required BANDWIDTH.
IsAcceptedStreamInf(line) == line \in {StreamInfLine, StreamInfCodecsLine}

\* The position of the last accepted EXT-X-STREAM-INF line between the URI
\* line before line i and line i, 0 when there is none.
StreamInfOf(i) ==
    Greatest({0} \cup {j \in (UriLineBefore(i) + 1)..(i - 1) : IsAcceptedStreamInf(history[j])})

\* The URI lines that come after an accepted EXT-X-STREAM-INF line.
IsVariantUriPosition(i) ==
    /\ IsUriLine(history[i])
    /\ \E j \in 1..(i - 1) : IsAcceptedStreamInf(history[j])

VariantUriPositions ==
    SelectSeq([i \in 1..Len(history) |-> i], IsVariantUriPosition)

\* What an EXT-X-STREAM-INF line of the texts writes; the defaults for none.
BandwidthWritten(i) ==
    CASE i = 0 -> createDefaultVariantStream.bandwidth
      [] history[i] = StreamInfLine -> Num(1)
      [] history[i] = StreamInfCodecsLine -> Num(2)

CodecsWritten(i) ==
    CASE i = 0 -> createDefaultVariantStream.codecs
      [] history[i] = StreamInfLine -> <<>>
      [] history[i] = StreamInfCodecsLine -> <<<<"a">>>>

\* C22. Variant finalization: from the first accepted EXT-X-STREAM-INF on,
\* every URI line appends one variant stream, in input order, with the URI of
\* the line and the attributes of the last accepted EXT-X-STREAM-INF since the
\* URI line before it; a URI line with no such tag since the URI line before it
\* appends a variant with the default attributes.  After a URI line the
\* current variant is the default one.
C22_VariantFinalization ==
    (library = VariantLines /\ ~thrown) =>
        LET variants == LastPlaylist.variantStreams
        IN  /\ Len(variants) = Len(VariantUriPositions)
            /\ \A k \in 1..Len(variants) :
                  /\ variants[k].uri = <<"a",".","t","s">>
                  /\ variants[k].bandwidth = BandwidthWritten(StreamInfOf(VariantUriPositions[k]))
                  /\ variants[k].codecs = CodecsWritten(StreamInfOf(VariantUriPositions[k]))
            /\ (lastCall = "pushString" /\ IsUriLine(history[Len(history)])) =>
                  sharedState.currentVariant = createDefaultVariantStream
            /\ (lastCall = "pushString") =>
                  sharedState.isMultivariantPlaylist =
                      \E j \in 1..Len(history) : IsAcceptedStreamInf(history[j])

\* Two EXT-X-STREAM-INF tags, each with its URI line, have been parsed: two
\* variants, the first with bandwidth 1, the second with bandwidth 2 and a codec.
C22_Witness ==
    /\ Returned /\ lastCall = "parseFullPlaylistString"
    /\ history = <<StreamInfLine, UriLine, StreamInfCodecsLine, UriLine>>
    /\ Len(objects[returned].variantStreams) = 2
    /\ objects[returned].variantStreams[1].bandwidth = Num(1)
    /\ objects[returned].variantStreams[2].bandwidth = Num(2)
    /\ objects[returned].variantStreams[2].codecs = <<<<"a">>>>

\* C22 as stated: the variant streams are as many as the URI lines that are the
\* next URI line after an accepted EXT-X-STREAM-INF, and each has the
\* attributes of the last accepted EXT-X-STREAM-INF before its line.
C22_OneVariantPerStreamInf ==
    (library = VariantLines /\ ~thrown) =>
        LET variants == LastPlaylist.variantStreams
            IsNext(i) == IsUriLine(history[i]) /\ StreamInfOf(i) # 0
            LastBefore(i) == Greatest({j \in 1..(i - 1) : IsAcceptedStreamInf(history[j])})
        IN  /\ Len(variants) = Cardinality({i \in 1..Len(history) : IsNext(i)})
            /\ \A k \in 1..Len(variants) :
                  variants[k].bandwidth = BandwidthWritten(LastBefore(VariantUriPositions[k]))

\* The positions of the URI lines, in order.
UriPositions == PositionsOfKind(IsUriLine)

\* Whether a line of the given text stands between the URI line before line i
\* and line i.
InBlockOf(i, line) == \E j \in (UriLineBefore(i) + 1)..(i - 1) : history[j] = line

\* How many lines of the given text stand there.
CountInBlockOf(i, line) ==
    Cardinality({j \in (UriLineBefore(i) + 1)..(i - 1) : history[j] = line})

\* C23. Per-segment tags apply to exactly one segment: segment k has the
\* duration and title, the discontinuity and gap flags, the byte range, the
\* program date-time and the parts of the tags between URI line k-1 and URI
\* line k, and the defaults where there is no such tag (its program date-time
\* is then undefined or the one extrapolated from segment k-1); after a URI
\* line the current segment is a default segment.
C23_PerSegmentTags ==
    (library = PerSegmentLines /\ ~thrown) =>
        LET segments == LastPlaylist.segments
        IN  /\ Len(segments) = Len(UriPositions)
            /\ \A k \in 1..Len(segments) :
                  LET i == UriPositions[k]
                      segment == segments[k]
                  IN  /\ segment.duration = IF InBlockOf(i, ExtInfTitledLine) THEN 5 ELSE 0
                      /\ segment.title = IF InBlockOf(i, ExtInfTitledLine) THEN <<"t">> ELSE <<>>
                      /\ segment.isDiscontinuity = InBlockOf(i, DiscontinuityLine)
                      /\ segment.isGap = InBlockOf(i, GapLine)
                      /\ segment.byteRange =
                            IF InBlockOf(i, ByteRangeLine)
                            THEN [kind |-> "byteRange", start |-> Num(3), end |-> Num(4)]
                            ELSE Undefined
                      /\ Len(segment.parts) = CountInBlockOf(i, PartLine)
                      /\ \A j \in 1..Len(segment.parts) : segment.parts[j].uri = Str(<<"p">>)
                      /\ segment.programDateTimeStart =
                            IF InBlockOf(i, PdtLine) THEN Num(9000)
                            ELSE IF k > 1 /\ segments[k - 1].programDateTimeStart # Undefined
                            THEN Num(segments[k - 1].programDateTimeStart.v
                                     + segments[k - 1].duration * 1000)
                            ELSE Undefined
            /\ (lastCall = "pushString" /\ IsUriLine(history[Len(history)])) =>
                  sharedState.currentSegment = createDefaultSegment

\* A segment with duration, title, gap flag and one part, and after it a
\* segment without any tag: the second segment has the defaults.
C23_Witness ==
    /\ lastCall = "pushString" /\ ~thrown
    /\ history = <<ExtInfTitledLine, PartLine, UriLine, UriLine>>
    /\ Len(objects[parsedPlaylist].segments) = 2
    /\ objects[parsedPlaylist].segments[1].duration = 5
    /\ Len(objects[parsedPlaylist].segments[1].parts) = 1
    /\ objects[parsedPlaylist].segments[2].duration = 0
    /\ objects[parsedPlaylist].segments[2].title = <<>>
    /\ objects[parsedPlaylist].segments[2].parts = <<>>

\* EXT-X-KEY lines the processor takes, and those it turns down for their URI.
IsAcceptedKey(line) == line \in {KeyLine, KeyNoneLine}

IsKeyWithoutUri(line) == line \in {KeyWithoutUriLine, KeyEmptyUriLine}

\* The position of the last accepted EXT-X-KEY line before line i, 0 when
\* there is none.
KeyBefore(i) == Greatest({0} \cup {j \in 1..(i - 1) : IsAcceptedKey(history[j])})

\* The key an accepted EXT-X-KEY line of the texts stands for.
KeyWritten(line) ==
    IF line = KeyLine
    THEN [kind |-> "encryption", method |-> Str(<<"A","E","S","-","1","2","8">>), uri |-> Str(<<"k">>),
          resolvedUri |-> IF lastOptions.baseUrl = <<>> THEN Str(<<"k">>)
                          ELSE Str(<<"h","t","t","p",":","/","/","h","/","v","/","k">>),
          iv |-> Undefined, keyFormat |-> Str(<<"i","d","e","n","t","i","t","y">>), keyFormatVersions |-> <<Num(1)>>]
    ELSE [kind |-> "encryption", method |-> Str(<<"N","O","N","E">>), uri |-> Undefined,
          resolvedUri |-> Undefined,
          iv |-> Undefined, keyFormat |-> Str(<<"i","d","e","n","t","i","t","y">>), keyFormatVersions |-> <<Num(1)>>]

\* C24. Encryption carry-forward: the encryption of a segment is the key of
\* the last accepted EXT-X-KEY line before its URI line, a METHOD=NONE key
\* included, however many segments lie in between; a segment with no accepted
\* EXT-X-KEY line before it has no encryption.
C24_EncryptionCarryForward ==
    (library = KeyLines /\ ~thrown) =>
        LET segments == LastPlaylist.segments
        IN  /\ Len(segments) = Len(UriPositions)
            /\ \A k \in 1..Len(segments) :
                  segments[k].encryption =
                      IF KeyBefore(UriPositions[k]) = 0 THEN Undefined
                      ELSE KeyWritten(history[KeyBefore(UriPositions[k])])

\* A segment without key, a segment under an AES-128 key and two segments
\* under the METHOD=NONE key that follows.
C24_Witness ==
    /\ Returned /\ lastCall = "parseFullPlaylistString"
    /\ lastOptions = playlistParseOptions
    /\ history = <<KeyLine, UriLine, KeyNoneLine, UriLine>>
    /\ objects[returned].segments[1].encryption.method = Str(<<"A","E","S","-","1","2","8">>)
    /\ objects[returned].segments[1].encryption.resolvedUri = Str(<<"h","t","t","p",":","/","/","h","/","v","/","k">>)
    /\ objects[returned].segments[2].encryption.method = Str(<<"N","O","N","E">>)
    /\ objects[returned].segments[2].encryption.uri = Undefined

\* C25. EXT-X-KEY requires URI unless METHOD=NONE: a pushed key tag with
\* METHOD=AES-128 and no URI, or an empty one, gives the missing-attribute
\* warning for URI and leaves the current encryption as it was, so that the
\* segments after it have the key accepted before it; a pushed key tag with
\* METHOD=NONE and no URI gives no warning and becomes the current encryption.
C25_KeyRequiresUri ==
    /\ [][(library = KeyLines /\ lastCall' = "pushString" /\ ~thrown') =>
              LET line == history'[Len(history')]
              IN  /\ IsKeyWithoutUri(line) =>
                        /\ warned' = <<missingRequiredAttributeWarn(EXT_X_KEY, <<"U","R","I">>)>>
                        /\ sharedState'.currentEncryption = sharedState.currentEncryption
                  /\ line = KeyNoneLine =>
                        /\ warned' = <<>>
                        /\ sharedState'.currentEncryption.method = Str(<<"N","O","N","E">>)
                        /\ sharedState'.currentEncryption.uri = Undefined]_vars
    /\ []((library = KeyLines /\ ~thrown) =>
            \A k \in 1..Len(LastPlaylist.segments) :
                LET i == UriPositions[k]
                IN  (i > 2 /\ IsKeyWithoutUri(history[i - 1]) /\ history[i - 2] = KeyLine) =>
                        /\ LastPlaylist.segments[k].encryption # Undefined
                        /\ LastPlaylist.segments[k].encryption.method = Str(<<"A","E","S","-","1","2","8">>)
                        /\ LastPlaylist.segments[k].encryption.uri = Str(<<"k">>))

\* A key tag with an empty URI has been pushed after an accepted key: the
\* warning is given and the accepted key is still the current one.
C25_Witness ==
    /\ lastCall = "pushString" /\ ~thrown
    /\ history = <<KeyLine, KeyEmptyUriLine>>
    /\ warned = <<missingRequiredAttributeWarn(EXT_X_KEY, <<"U","R","I">>)>>
    /\ sharedState.currentEncryption # Undefined
    /\ sharedState.currentEncryption.uri = Str(<<"k">>)

\* The position of the last EXT-X-MAP line with a URI before line i, 0 when
\* there is none.
MapBefore(i) ==
    Greatest({0} \cup {j \in 1..(i - 1) : history[j] \in {MapLine, MapRangeLine}})

\* What an EXT-X-MAP line of the texts writes: uri, resolvedUri, byteRange.
MapWritten(line) ==
    IF line = MapLine
    THEN <<<<"m">>, IF lastOptions.baseUrl = <<>> THEN <<"m">> ELSE <<"h","t","t","p",":","/","/","h","/","v","/","m">>, Undefined>>
    ELSE <<<<"n">>, IF lastOptions.baseUrl = <<>> THEN <<"n">> ELSE <<"h","t","t","p",":","/","/","h","/","v","/","n">>,
           [kind |-> "byteRange", start |-> Num(3), end |-> Num(4)]>>

\* C26. Init-map carry-forward: the map of a segment has the uri, resolvedUri
\* and byteRange of the last EXT-X-MAP line with a URI before its URI line,
\* however many segments lie in between; an EXT-X-MAP line without URI is
\* skipped with a warning and changes no map; a segment with no accepted
\* EXT-X-MAP line before it has no map.
C26_InitMapCarryForward ==
    (library = MapLines /\ ~thrown) =>
        LET segments == LastPlaylist.segments
        IN  /\ Len(segments) = Len(UriPositions)
            /\ \A k \in 1..Len(segments) :
                  IF MapBefore(UriPositions[k]) = 0
                  THEN segments[k].map = Undefined
                  ELSE /\ segments[k].map # Undefined
                       /\ <<segments[k].map.uri, segments[k].map.resolvedUri,
                             segments[k].map.byteRange>>
                              = MapWritten(history[MapBefore(UriPositions[k])])
            /\ (lastCall = "pushString" /\ history[Len(history)] = MapWithoutUriLine) =>
                  warned = <<missingRequiredAttributeWarn(EXT_X_MAP, <<"U","R","I">>)>>

\* A map with a byte range, a map line without URI after it, and two segments
\* that both have the first map.
C26_Witness ==
    /\ Returned /\ lastCall = "parseFullPlaylistString"
    /\ lastOptions = playlistParseOptions
    /\ history = <<MapRangeLine, MapWithoutUriLine, UriLine, UriLine>>
    /\ objects[returned].segments[1].map.resolvedUri = <<"h","t","t","p",":","/","/","h","/","v","/","n">>
    /\ objects[returned].segments[2].map.byteRange.end = Num(4)

\* A URI line has just been pushed and has finalized a segment.
SegmentJustPushed ==
    /\ lastCall = "pushString" /\ ~thrown
    /\ history # <<>> /\ history[Len(history)] = UriLine
    /\ objects[parsedPlaylist].segments # <<>>

LastSegment == objects[parsedPlaylist].segments[Len(objects[parsedPlaylist].segments)]

\* C27. Bitrate application: a segment that has just been finalized has the
\* bitrate sharedState.currentBitrate holds if and only if currentBitrate is
\* set and the segment has no byteRange; otherwise it has no bitrate.
C27_BitrateApplication ==
    (library = BitrateLines /\ SegmentJustPushed) =>
        LastSegment.bitrate =
            IF sharedState.currentBitrate # Undefined /\ LastSegment.byteRange = Undefined
            THEN sharedState.currentBitrate
            ELSE Undefined

\* '#EXT-X-BITRATE:0' and a URI line have been pushed: currentBitrate is 0 and
\* the segment, which has no byteRange, has no bitrate.
C27_ZeroBitrateNotApplied ==
    /\ library = BitrateLines /\ SegmentJustPushed
    /\ history = <<BitrateZeroLine, UriLine>>
    /\ sharedState.currentBitrate = Num(0)
    /\ LastSegment.byteRange = Undefined
    /\ LastSegment.bitrate = Undefined

\* The position of the last EXT-X-BITRATE line before line i, 0 when there is
\* none.
BitrateBefore(i) ==
    Greatest({0} \cup {j \in 1..(i - 1) : history[j] \in {BitrateLine, BitrateZeroLine}})

\* Whether a segment with a byte range has been finalized between line j and
\* line i.
ByteRangeSegmentBetween(j, i) ==
    \E u \in (j + 1)..(i - 1) : IsUriLine(history[u]) /\ InBlockOf(u, ByteRangeLine)

HasOwnProgramDateTime(i) == InBlockOf(i, PdtLine) \/ InBlockOf(i, PdtZeroLine)

\* C29. Program-date-time extrapolation: a segment without an
\* EXT-X-PROGRAM-DATE-TIME of its own, after a segment whose
\* programDateTimeStart is set, starts at that start plus 1000 times that
\* segment's duration; every segment whose programDateTimeStart is set, the
\* timestamp 0 included, has programDateTimeEnd = programDateTimeStart + 1000
\* times its duration.
C29_ProgramDateTimeExtrapolation ==
    (library = PdtLines /\ ~thrown) =>
        LET segments == LastPlaylist.segments
        IN  \A k \in 1..Len(segments) :
              /\ (/\ k > 1
                  /\ ~HasOwnProgramDateTime(UriPositions[k])
                  /\ segments[k - 1].programDateTimeStart # Undefined) =>
                      segments[k].programDateTimeStart =
                          Num(segments[k - 1].programDateTimeStart.v
                                + segments[k - 1].duration * 1000)
              /\ segments[k].programDateTimeStart # Undefined =>
                      segments[k].programDateTimeEnd =
                          Num(segments[k].programDateTimeStart.v + segments[k].duration * 1000)

\* A segment with the date-time of timestamp 0 and duration 5 and a segment
\* without date-time: the first has start 0 and no end, the second no start.
C29_ZeroTimestamp ==
    /\ Returned /\ lastCall = "parseFullPlaylistString"
    /\ history = <<PdtZeroLine, ExtInfLine, UriLine, UriLine>>
    /\ objects[returned].segments[1].programDateTimeStart = Num(0)
    /\ objects[returned].segments[1].duration = 5
    /\ objects[returned].segments[1].programDateTimeEnd = Undefined
    /\ objects[returned].segments[2].programDateTimeStart = Undefined

\* The byte ranges of the parts the lines from..to of the text append to one
\* segment: BYTERANGE="2@3" gives 3..4, BYTERANGE="2" the two bytes after the
\* range of the part before it, and no part when that part has no range or
\* there is no part before it.
RECURSIVE PartRanges(_, _)
PartRanges(from, to) ==
    IF to < from THEN <<>>
    ELSE LET before == PartRanges(from, to - 1)
             line == history[to]
         IN  IF line = PartLine THEN Append(before, Undefined)
             ELSE IF line = PartRangeLine
             THEN Append(before, [kind |-> "byteRange", start |-> Num(3), end |-> Num(4)])
             ELSE IF line = PartLengthLine
             THEN IF before # <<>> /\ before[Len(before)] # Undefined
                  THEN Append(before,
                              [kind |-> "byteRange",
                               start |-> Num(before[Len(before)].end.v + 1),
                               end |-> Num(before[Len(before)].end.v + 2)])
                  ELSE before
             ELSE before

RangesOf(parts) == [j \in 1..Len(parts) |-> parts[j].byteRange]

\* Whether the part before the one a pushed line brings has a byte range.
PreviousPartHasRange ==
    LET parts == sharedState.currentSegment.parts
    IN  IF parts = <<>> THEN FALSE ELSE parts[Len(parts)].byteRange # Undefined

\* C30. EXT-X-PART byte ranges: a part with BYTERANGE=length@offset has the
\* byte range offset..offset+length-1; a part with BYTERANGE=length starts one
\* byte after the range of the previous part of the segment under
\* construction; when that segment has no previous part with a byte range,
\* also when the only earlier parts are those of a finalized segment, the
\* warning is given and the part is not appended.
C30_PartByteRanges ==
    /\ [][(library = PartLines /\ lastCall' = "pushString" /\ ~thrown'
              /\ history'[Len(history')] = PartLengthLine) =>
              IF PreviousPartHasRange
              THEN /\ Len(sharedState'.currentSegment.parts)
                        = Len(sharedState.currentSegment.parts) + 1
                   /\ \A j \in 1..Len(warned') :
                         warned'[j] # partByteRangeWithoutPreviousWarn(EXT_X_PART)
              ELSE /\ sharedState'.currentSegment.parts = sharedState.currentSegment.parts
                   /\ warned' # <<>>
                   /\ warned'[Len(warned')] = partByteRangeWithoutPreviousWarn(EXT_X_PART)]_vars
    /\ []((library = PartLines /\ ~thrown) =>
            /\ \A k \in 1..Len(LastPlaylist.segments) :
                  RangesOf(LastPlaylist.segments[k].parts)
                      = PartRanges(UriLineBefore(UriPositions[k]) + 1, UriPositions[k] - 1)
            /\ lastCall = "pushString" =>
                  RangesOf(sharedState.currentSegment.parts)
                      = PartRanges(UriLineBefore(Len(history) + 1) + 1, Len(history)))

\* A part with offset and a part without in the first segment, and a part
\* without offset in the second: the first segment has the ranges 3..4 and
\* 5..6, the second segment no part.
C30_Witness ==
    /\ Returned /\ lastCall = "parseFullPlaylistString"
    /\ history = <<PartRangeLine, PartLengthLine, UriLine, PartLengthLine>>
    /\ Len(objects[returned].segments) = 1
    /\ RangesOf(objects[returned].segments[1].parts)
          = <<[kind |-> "byteRange", start |-> Num(3), end |-> Num(4)],
              [kind |-> "byteRange", start |-> Num(5), end |-> Num(6)]>>
    /\ \E j \in 1..Len(warned) : warned[j] = partByteRangeWithoutPreviousWarn(EXT_X_PART)

\* C31. EXT-X-SKIP: after an EXT-X-SKIP line with SKIPPED-SEGMENTS=3 the
\* playlist's skip has skippedSegments 3 and recentlyRemovedDateRanges equal to
\* the value of RECENTLY-REMOVED-DATERANGES split on tab when the line has the
\* attribute, and to the empty list when it has not.
C31_SkipDateRanges ==
    (/\ library = SkipLines
     /\ lastCall \in {"pushString", "parseFullPlaylistString"}
     /\ history # <<>>) =>
        LET line == history[Len(history)]
        IN  /\ line = SkipRemovedLine =>
                  LastPlaylist.skip = [skippedSegments |-> Num(3),
                                       recentlyRemovedDateRanges |-> <<<<"a">>, <<"b">>>>]
            /\ line = SkipLine =>
                  LastPlaylist.skip = [skippedSegments |-> Num(3),
                                       recentlyRemovedDateRanges |-> <<>>]

\* An EXT-X-SKIP line without RECENTLY-REMOVED-DATERANGES has been pushed: the
\* call has thrown and the playlist has no skip.
C31_SkipWithoutDateRangesThrows ==
    /\ library = SkipLines /\ lastCall = "pushString"
    /\ history = <<SkipLine>>
    /\ thrown
    /\ objects[parsedPlaylist].skip = Undefined

\* Whether an EXT-X-DEFINE line of the texts populates a variable under the
\* options of the call: a NAME define does, an IMPORT of a variable the base
\* definitions have, a QUERYPARAM the query of the base URL has.
Populates(line) ==
    \/ line = DefineLine
    \/ /\ line \in {ImportILine, ImportJLine, ImportKLine, ImportELine}
       /\ lastOptions.baseDefine # Undefined
    \/ line = QueryTLine /\ lastOptions.baseUrl = baseUrlOfPlaylist

PopulatedBefore(i) == \E j \in 1..(i - 1) : Populates(history[j])

\* What the imports of the texts find: the name before the import, the import
\* before the query parameter.
ImportFound(line) ==
    CASE line = ImportILine -> Str(<<"n">>)
      [] line = ImportJLine -> Str(<<"i">>)
      [] line = ImportKLine -> Str(<<"q">>)
      [] line = ImportELine -> Str(<<>>)

ImportKeyOf(line) == <<line[23]>>

\* C32. EXT-X-DEFINE and the substitution flag: while lines are pushed,
\* hasVariablesForSubstitution is true exactly when a define line pushed so
\* far has populated a variable (a NAME define, an IMPORT found in baseDefine
\* under name, then import, then queryParam, a QUERYPARAM found in the query
\* of baseUrl); an IMPORT or QUERYPARAM that finds nothing stores null under
\* its key; URI lines and attribute values before any population are taken as
\* written.
C32_DefineFlag ==
    (library \in {ImportLines, QueryLines} /\ lastCall = "pushString" /\ ~thrown) =>
        LET define == objects[parsedPlaylist].define
            segments == objects[parsedPlaylist].segments
            last == history[Len(history)]
        IN  /\ sharedState.hasVariablesForSubstitution <=> PopulatedBefore(Len(history) + 1)
            /\ \A j \in 1..Len(history) :
                  /\ (history[j] \in ImportLines \ {ImportedUriLine}) =>
                        Lookup(define.import, ImportKeyOf(history[j])) =
                            IF Populates(history[j]) THEN ImportFound(history[j]) ELSE Null
                  /\ history[j] = QueryTLine =>
                        Lookup(define.queryParam, <<"t">>) =
                            IF Populates(history[j]) THEN Str(<<"k">>) ELSE Null
                  /\ history[j] = QueryULine => Lookup(define.queryParam, <<"u">>) = Null
            /\ \A k \in 1..Len(segments) :
                  ~PopulatedBefore(UriPositions[k]) =>
                      segments[k].uri = SubSeq(history[UriPositions[k]], 1,
                                               Len(history[UriPositions[k]]) - 1)
            /\ (last = KeyVariablesLine /\ ~PopulatedBefore(Len(history))) =>
                  /\ sharedState.currentEncryption.uri = Str(<<"{","$","X","}">>)
                  /\ sharedState.currentEncryption.iv = Str(<<"{","$","Y","}">>)

\* The import of E, which the base definitions have with the empty string as
\* its value, has been pushed: null is stored and the flag is false.
C32_EmptyImportNotFound ==
    /\ library = ImportLines /\ lastCall = "pushString" /\ ~thrown
    /\ lastOptions = importingParseOptions
    /\ history = <<ImportELine>>
    /\ Lookup(objects[parsedPlaylist].define.import, <<"E">>) = Null
    /\ ~sharedState.hasVariablesForSubstitution

\* The context a parse carries from line to line, at its defaults.
CarriedContextAtDefaults ==
    /\ sharedState.currentEncryption = Undefined
    /\ sharedState.currentMap = Undefined
    /\ sharedState.currentBitrate = Undefined
    /\ sharedState.currentSegment = createDefaultSegment
    /\ sharedState.currentVariant = createDefaultVariantStream
    /\ ~sharedState.isMultivariantPlaylist
    /\ ~sharedState.hasVariablesForSubstitution

IsReadLine(line) == line # SkipLine

C37_NoCleanupOnAbort ==
    /\ [][thrown' =>
              /\ parsedPlaylist' = parsedPlaylist
              /\ returned' = returned
              /\ completed' = completed
              /\ kind = "progressive" => stateMachine' # Null /\ stateMachine'.acc # <<>>]_vars
    /\ []((kind = "full" /\ \E j \in 1..Len(history) : ~IsReadLine(history[j])) =>
            LET fresh == parseFresh(parserOptions, lastOptions,
                                    Flatten(SelectSeq(history, IsReadLine)))
            IN  IF thrown
                THEN /\ objects[parsedPlaylist] = fresh.playlist
                     /\ sharedState = fresh.sharedState
                ELSE objects[returned] = fresh.playlist)
    /\ []((kind = "progressive" /\ thrown) =>
            LET first == CHOOSE j \in 1..Len(history) :
                             /\ ~IsReadLine(history[j])
                             /\ \A i \in 1..(j - 1) : IsReadLine(history[i])
                fresh == parseFresh(parserOptions, lastOptions,
                                    Flatten(SubSeq(history, 1, first - 1)))
            IN  /\ objects[parsedPlaylist] = fresh.playlist
                /\ sharedState = fresh.sharedState)

\* A full parser's first call was aborted after an EXT-X-STREAM-INF line; its
\* second call, given a URI line, has returned a playlist with a variant
\* stream and no segment.
C37_Witness ==
    /\ kind = "full" /\ Returned /\ completed = 1
    /\ history = <<StreamInfLine, SkipLine, UriLine>>
    /\ SegmentsOf(returned) = <<>>
    /\ Len(objects[returned].variantStreams) = 1
    /\ objects[returned].variantStreams[1].bandwidth = Num(1)

\* The uri fields of a list of segments or variant streams, in order.
UriFields(list) == [k \in 1..Len(list) |-> list[k].uri]

\* The URIs of the URI lines of the text, in order.
UrisWritten ==
    [k \in 1..Len(UriPositions) |->
        SubSeq(history[UriPositions[k]], 1, Len(history[UriPositions[k]]) - 1)]

\* C34. Count conservation: a URI line appends one element to one of
\* segments and variantStreams and takes none away, a tag line changes the
\* length of neither, so the two lists together have as many elements as URI
\* lines have been read, in the order of the URI lines.
C34_CountConservation ==
    /\ [][(library = KindLines /\ lastCall' = "pushString" /\ ~thrown') =>
              LET before == objects[parsedPlaylist]
                  after == objects'[parsedPlaylist']
                  grown(a, b) == Len(b) = Len(a) + 1 /\ SubSeq(b, 1, Len(a)) = a
              IN  IF IsUriLine(history'[Len(history')])
                  THEN \/ /\ grown(before.segments, after.segments)
                          /\ after.variantStreams = before.variantStreams
                       \/ /\ grown(before.variantStreams, after.variantStreams)
                          /\ after.segments = before.segments
                  ELSE /\ after.segments = before.segments
                       /\ after.variantStreams = before.variantStreams]_vars
    /\ []((library = KindLines /\ ~thrown) =>
            /\ Len(LastPlaylist.segments) + Len(LastPlaylist.variantStreams)
                    = Len(UriPositions)
            /\ UriFields(LastPlaylist.segments) \o UriFields(LastPlaylist.variantStreams)
                    = UrisWritten)

\* Four lines have been pushed, three of them URI lines: the playlist has one
\* segment and two variant streams, in the order of the lines.
C34_Witness ==
    /\ lastCall = "pushString" /\ ~thrown
    /\ history = <<UriLine, StreamInfLine, OtherUriLine, UriLine>>
    /\ UriFields(objects[parsedPlaylist].segments) = <<<<"a",".","t","s">>>>
    /\ UriFields(objects[parsedPlaylist].variantStreams) = <<<<"b",".","t","s">>, <<"a",".","t","s">>>>

\* The position of the first EXT-X-STREAM-INF line with BANDWIDTH, one past
\* the end of the text when there is none.
FirstAcceptedStreamInf ==
    IF \E j \in 1..Len(history) : history[j] = StreamInfLine
    THEN CHOOSE j \in 1..Len(history) :
             /\ history[j] = StreamInfLine
             /\ \A i \in 1..(j - 1) : history[i] # StreamInfLine
    ELSE Len(history) + 1

\* C35. The playlist-kind switch is one-way: while lines are pushed,
\* isMultivariantPlaylist is true exactly from the first EXT-X-STREAM-INF line
\* with BANDWIDTH on; an EXT-X-STREAM-INF line without BANDWIDTH and an
\* EXT-X-I-FRAME-STREAM-INF line do not change it.  The URI lines before that
\* line are the segments, all URI lines after it the variant streams; one with
\* no EXT-X-STREAM-INF line of its own is a variant stream with the default
\* attributes.
C35_KindSwitchOneWay ==
    /\ [][(library = KindLines /\ lastCall' = "pushString" /\ ~thrown') =>
              sharedState'.isMultivariantPlaylist =
                  IF lastCall = "pushString" /\ sharedState.isMultivariantPlaylist
                  THEN TRUE
                  ELSE history'[Len(history')] = StreamInfLine]_vars
    /\ []((library = KindLines /\ ~thrown) =>
            LET variants == LastPlaylist.variantStreams
                isSegmentUri(i) == IsUriLine(history[i]) /\ i < FirstAcceptedStreamInf
                isVariantUri(i) == IsUriLine(history[i]) /\ i > FirstAcceptedStreamInf
                segmentUris == SelectSeq(UriPositions, isSegmentUri)
                variantUris == SelectSeq(UriPositions, isVariantUri)
            IN  /\ UriFields(LastPlaylist.segments)
                       = [k \in 1..Len(segmentUris) |-> UrisWritten[k]]
                /\ UriFields(variants)
                       = [k \in 1..Len(variantUris) |-> UrisWritten[Len(segmentUris) + k]]
                /\ \A k \in 1..Len(variants) :
                      (\A j \in (UriLineBefore(variantUris[k]) + 1)..(variantUris[k] - 1) :
                           history[j] # StreamInfLine) =>
                          [variants[k] EXCEPT !.uri = <<>>, !.resolvedUri = <<>>]
                              = createDefaultVariantStream)

\* An EXT-X-I-FRAME-STREAM-INF line, a URI line, an EXT-X-STREAM-INF line and a
\* URI line: one i-frame playlist, one segment, one variant stream.
C35_Witness ==
    /\ Returned /\ lastCall = "parseFullPlaylistString"
    /\ history = <<IFrameStreamInfLine, UriLine, StreamInfLine, OtherUriLine>>
    /\ Len(objects[returned].iFramePlaylists) = 1
    /\ UriFields(objects[returned].segments) = <<<<"a",".","t","s">>>>
    /\ UriFields(objects[returned].variantStreams) = <<<<"b",".","t","s">>>>

\* The ends of the lines of the tape that have been pushed with their newline.
LineEnds ==
    LET ends(e) == tape[e] = NL
    IN  SelectSeq([e \in 1..pos |-> e], ends)

\* The options of the push that took the character at e.
OptionsAt(e) ==
    LET k == CHOOSE k \in 1..Len(history) :
                 /\ history[k].end >= e
                 /\ \A j \in 1..(k - 1) : history[j].end < e
    IN  history[k].options

\* The parser given the shared state the options make of its own.
Under(options, q) == [q EXCEPT !.sharedState = gatherParseOptions(options, q.sharedState)]

\* What a new parser has after the first j lines of the tape, each line read
\* whole under the options of the push that took its newline.
RECURSIVE LinesRead(_)
LinesRead(j) ==
    IF j = 0
    THEN [playlist |-> createDefaultParsedPlaylist, sharedState |-> createDefaultSharedState,
          stateMachine |-> createStateMachine, warned |-> <<>>, called |-> <<>>,
          thrown |-> FALSE]
    ELSE \* the earlier lines first
         LET q == LinesRead(j - 1)
             from == IF j = 1 THEN 1 ELSE LineEnds[j - 1] + 1
         IN  feed(parserOptions, SubSeq(tape, from, LineEnds[j]),
                  Under(OptionsAt(LineEnds[j]), q))

\* C36. Parse options are re-read on every push: the playlist a progressive
\* parser has built is the one it builds when each line is read under the
\* options of the push that took its newline, whatever the options of the
\* pushes the line began in; after a push the shared state has the options of
\* that push; done() reads an unfinished last line under the options of the
\* last push; a push leaves the segments the playlist has as they are.
C36_OptionsPerPush ==
    /\ []((library = OptionLines /\ ~thrown) =>
            LET n == Len(LineEnds)
                q == LinesRead(n)
                rest == SubSeq(tape, (IF n = 0 THEN 0 ELSE LineEnds[n]) + 1, pos)
            IN  IF lastCall = "done"
                THEN objects[returned]
                         = feed(parserOptions, rest \o <<NL>>, Under(lastOptions, q)).playlist
                ELSE /\ objects[parsedPlaylist] = q.playlist
                     /\ lastCall = "pushString" =>
                            /\ sharedState = Under(lastOptions, q).sharedState
                            /\ stateMachine.acc # <<>> => rest # <<>>)
    /\ [][(library = OptionLines /\ lastCall' = "pushString") =>
              LET before == objects[parsedPlaylist].segments
                  after == objects'[parsedPlaylist'].segments
              IN  /\ Len(after) >= Len(before)
                  /\ SubSeq(after, 1, Len(before)) = before]_vars

\* Two URI lines in four pushes: the first line begins under the playlist's URL
\* and ends under no base URL, the second begins under no base URL and ends
\* under the playlist's URL.
C36_Witness ==
    /\ library = OptionLines /\ lastCall = "pushString" /\ ~thrown
    /\ tape = UriLine \o UriLine
    /\ Len(history) = 4
    /\ history[1].options = playlistParseOptions
    /\ history[2].options = laterParseOptions
    /\ history[3].options = laterParseOptions
    /\ history[4].options = playlistParseOptions
    /\ Len(objects[parsedPlaylist].segments) = 2
    /\ objects[parsedPlaylist].segments[1].resolvedUri = <<"a",".","t","s">>
    /\ objects[parsedPlaylist].segments[2].resolvedUri = <<"h","t","t","p",":","/","/","h","/","v","/","a",".","t","s">>

====
